---------------------------- MODULE Spec2Model ----------------------------
(***************************************************************************)
(* Model of the page-selection and markdown-cleaning utilities of the      *)
(* Mistral OCR MCP server (local server and Cloudflare Worker variant).    *)
(*                                                                         *)
(* A JavaScript string is a sequence of one-character strings.  A          *)
(* JavaScript number is a record [nan, val]: NaN is [nan |-> TRUE], every  *)
(* other number the model needs is an integer.                             *)
(***************************************************************************)
EXTENDS Integers, Sequences, FiniteSets, TLC

VARIABLES
    \* parsePageSpec
    pageSpec,         \* the argument
    parts,            \* pageSpec.split(",")
    partIdx,          \* position of the for-of loop in parts
    pages,            \* the Set<number> being filled
    parseState,       \* "idle", "start", "loop", "returned", "thrown"
    parseError,       \* which Error was thrown ("" when none)
    \* cleanMarkdownContent
    content,          \* the argument
    lines,            \* content.split("\n")
    lineCounts,       \* Map<string, number>
    repetitiveLines,  \* Set<string>
    cleanedLines,     \* lines.filter(...)
    cleanedContent,   \* cleanedLines.join("\n")
    cleanMethod,      \* second member of the returned pair
    cleanState,       \* "idle", "start", "counted", "identified", "filtered", "returned"
    \* markdownToText
    mdContent,        \* the argument
    mdText,           \* the local text, rewritten by each replace
    mdState,          \* "idle", "start", "images", "links", "markers", "newlines", "returned"
    \* one tool call, in the local server or in the Worker
    request,          \* variant, tool name and arguments
    pc,               \* position of the handler
    locals,           \* the handler's local variables
    fsys,             \* the files the call created
    service,          \* the requests made to the Mistral service, in order
    response,         \* what the handler returned (NoResponse until then)
    \* the Worker's module-level variables
    _env,             \* the env of the last fetch
    _userApiKey       \* the ?apiKey= of the last fetch ("" for null)

parseVars == <<pageSpec, parts, partIdx, pages, parseState, parseError>>
cleanVars == <<content, lines, lineCounts, repetitiveLines, cleanedLines,
               cleanedContent, cleanMethod, cleanState>>
textVars == <<mdContent, mdText, mdState>>
toolVars == <<request, pc, locals, fsys, service, response, _env, _userApiKey>>
vars == <<parseVars, cleanVars, textVars, toolVars>>

\* cleanMarkdownContent is not running
CleanIdle ==
    /\ content = <<>>
    /\ lines = <<>>
    /\ lineCounts = <<>>
    /\ repetitiveLines = {}
    /\ cleanedLines = <<>>
    /\ cleanedContent = <<>>
    /\ cleanMethod = ""
    /\ cleanState = "idle"

\* parsePageSpec is not running
ParseIdle ==
    /\ pageSpec = <<>>
    /\ parts = <<>>
    /\ partIdx = 0
    /\ pages = {}
    /\ parseState = "idle"
    /\ parseError = ""

\* markdownToText is not running
TextIdle ==
    /\ mdContent = <<>>
    /\ mdText = <<>>
    /\ mdState = "idle"

NoResponse == [returned |-> FALSE]

\* an env without secrets; undefined, null and "" are all ""
NoEnv == [MISTRAL_API_KEY |-> "", DEFAULT_MISTRAL_API_KEY |-> ""]

\* no tool call is running
ToolIdle ==
    /\ request = [variant |-> "none"]
    /\ pc = "idle"
    /\ locals = [none |-> TRUE]
    /\ fsys = {}
    /\ service = <<>>
    /\ response = NoResponse
    /\ _env = NoEnv
    /\ _userApiKey = ""

---------------------------------------------------------------------------
(* Bounds of the model *)

\* longest page spec, in characters
MaxSpecLen == 5

\* most lines of a document
MaxLines == 4

\* most fragments of a markdown text
MaxFrags == 4

\* most pages of a document
MaxPages == 3

---------------------------------------------------------------------------
(* JavaScript strings *)

NL == "\n"

\* String.prototype.trim strips WhiteSpace and LineTerminator characters
IsWhiteSpace(c) == c \in {" ", "\t", "\n", "\r"}

IsDigit(c) == c \in {"0", "1", "2", "3", "4", "5", "6", "7", "8", "9"}

DigitChars == <<"0", "1", "2", "3", "4", "5", "6", "7", "8", "9">>

DigitVal(c) == (CHOOSE i \in 1..10 : DigitChars[i] = c) - 1

UpperChars == <<"A", "B", "C", "D", "E", "F", "G", "H", "I", "J", "K", "L", "M",
                "N", "O", "P", "Q", "R", "S", "T", "U", "V", "W", "X", "Y", "Z">>

LowerChars == <<"a", "b", "c", "d", "e", "f", "g", "h", "i", "j", "k", "l", "m",
                "n", "o", "p", "q", "r", "s", "t", "u", "v", "w", "x", "y", "z">>

\* case folding of the regular expressions' i flag
ToLower(c) ==
    IF \E i \in 1..26 : UpperChars[i] = c
    THEN LowerChars[CHOOSE i \in 1..26 : UpperChars[i] = c]
    ELSE c

LowerStr(s) == [i \in 1..Len(s) |-> ToLower(s[i])]

RECURSIVE TrimStart(_)
TrimStart(s) ==
    IF s # <<>> /\ IsWhiteSpace(Head(s)) THEN TrimStart(Tail(s)) ELSE s

RECURSIVE TrimEnd(_)
TrimEnd(s) ==
    IF s # <<>> /\ IsWhiteSpace(s[Len(s)])
    THEN TrimEnd(SubSeq(s, 1, Len(s) - 1))
    ELSE s

\* String.prototype.trim
Trim(s) == TrimEnd(TrimStart(s))

\* String.prototype.includes, for a one-character needle
Includes(s, c) == \E i \in 1..Len(s) : s[i] = c

StartsWithNever(s, c) == FALSE

\* String.prototype.startsWith, for a one-character prefix
StartsWith(s, c) == Len(s) > 0 /\ s[1] = c

\* String.prototype.split with a one-character separator: always at least
\* one part, "" included
RECURSIVE SplitFrom(_, _, _)
SplitFrom(s, sep, cur) ==
    IF s = <<>> THEN <<cur>>
    ELSE IF Head(s) = sep THEN <<cur>> \o SplitFrom(Tail(s), sep, <<>>)
    ELSE SplitFrom(Tail(s), sep, Append(cur, Head(s)))

Split(s, sep) == SplitFrom(s, sep, <<>>)

RECURSIVE JoinTrailing(_, _)
JoinTrailing(ls, sep) ==
    IF ls = <<>> THEN <<>>
    ELSE Head(ls) \o <<sep>> \o JoinTrailing(Tail(ls), sep)

\* Array.prototype.join with a one-character separator
RECURSIVE Join(_, _)
Join(ls, sep) ==
    IF ls = <<>> THEN <<>>
    ELSE IF Len(ls) = 1 THEN Head(ls)
    ELSE Head(ls) \o <<sep>> \o Join(Tail(ls), sep)

\* every string over alphabet of length at most n
StringsUpTo(alphabet, n) == UNION {[1..k -> alphabet] : k \in 0..n}

---------------------------------------------------------------------------
(* JavaScript numbers *)

NaN == [nan |-> TRUE, val |-> 0]

Num(v) == [nan |-> FALSE, val |-> v]

\* a < b and a > b: false as soon as one side is NaN
JsLt(a, b) == ~a.nan /\ ~b.nan /\ a.val < b.val

JsGt(a, b) == ~a.nan /\ ~b.nan /\ a.val > b.val

\* the longest prefix of digits
RECURSIVE DigitPrefix(_)
DigitPrefix(s) ==
    IF s # <<>> /\ IsDigit(Head(s)) THEN <<Head(s)>> \o DigitPrefix(Tail(s))
    ELSE <<>>

RECURSIVE DigitsValue(_, _)
DigitsValue(ds, acc) ==
    IF ds = <<>> THEN acc
    ELSE DigitsValue(Tail(ds), 10 * acc + DigitVal(Head(ds)))

\* parseInt(s, 10): skip leading white space, read an optional sign, then the
\* longest prefix of decimal digits; NaN when there is no digit; whatever
\* follows the digits is ignored
ParseInt(s) ==
    LET t    == TrimStart(s)
        neg  == StartsWith(t, "-")
        body == IF neg \/ StartsWith(t, "+") THEN Tail(t) ELSE t
        ds   == DigitPrefix(body)
    IN  IF ds = <<>> THEN NaN
        ELSE Num(IF neg THEN 0 - DigitsValue(ds, 0) ELSE DigitsValue(ds, 0))

---------------------------------------------------------------------------
(* parsePageSpec *)

\* characters page specs are drawn from
SpecAlphabet == {"0", "1", "3", ",", "-", " ", "a"}

ErrPositive == "Page numbers must be positive"
ErrRangeFormat == "Invalid page range format"
ErrRangeOrder == "Invalid page range"

Throw(msg) == [threw |-> TRUE, error |-> msg, add |-> {}]

Add(ps) == [threw |-> FALSE, error |-> "", add |-> ps]

RangePagesExclusive(start, end) ==
    IF start.nan \/ end.nan THEN {}
    ELSE {Num(i) : i \in start.val..(end.val - 1)}

\* for (let i = start; i <= end; i++) pages.add(i): no iteration when an
\* endpoint is NaN, because i <= end is then false
RangePages(start, end) ==
    IF start.nan \/ end.nan THEN {}
    ELSE {Num(i) : i \in start.val..end.val}

\* one iteration of the for-of loop over parts, on the trimmed part
ParseToken(trimmed) ==
    IF Includes(trimmed, "-")
    THEN IF StartsWith(trimmed, "-")
         THEN Throw(ErrPositive)
         ELSE LET rangeParts == Split(trimmed, "-") IN
              IF Len(rangeParts) # 2
              THEN Throw(ErrRangeFormat)
              ELSE LET start == ParseInt(Trim(rangeParts[1]))
                       end   == ParseInt(Trim(rangeParts[2]))
                   IN  IF JsLt(start, Num(1)) \/ JsLt(end, Num(1))
                       THEN Throw(ErrPositive)
                       ELSE IF JsGt(start, end)
                       THEN Throw(ErrRangeOrder)
                       ELSE Add(RangePages(start, end))
    ELSE LET pageNum == ParseInt(trimmed) IN
         IF JsLt(pageNum, Num(1))
         THEN Throw(ErrPositive)
         ELSE Add({pageNum})

\* const pages = new Set(); const parts = pageSpec.split(",")
ParseSplit ==
    /\ parseState = "start"
    /\ parts' = Split(pageSpec, ",")
    /\ partIdx' = 1
    /\ pages' = {}
    /\ parseState' = "loop"
    /\ UNCHANGED <<pageSpec, parseError, cleanVars, textVars, toolVars>>

\* the body of the loop for the next part: a throw ends the call
ParsePart ==
    /\ parseState = "loop"
    /\ partIdx <= Len(parts)
    /\ LET r == ParseToken(Trim(parts[partIdx])) IN
       IF r.threw
       THEN /\ parseState' = "thrown"
            /\ parseError' = r.error
            /\ UNCHANGED <<pages, partIdx>>
       ELSE /\ pages' = pages \cup r.add
            /\ partIdx' = partIdx + 1
            /\ UNCHANGED <<parseState, parseError>>
    /\ UNCHANGED <<pageSpec, parts, cleanVars, textVars, toolVars>>

\* return pages
ParseReturn ==
    /\ parseState = "loop"
    /\ partIdx > Len(parts)
    /\ parseState' = "returned"
    /\ UNCHANGED <<pageSpec, parts, partIdx, pages, parseError, cleanVars, textVars, toolVars>>

\* a call of parsePageSpec on any page spec of the bounded alphabet; every
\* caller tests the spec for truthiness first, so it is never called on ""
InitParse ==
    /\ pageSpec \in StringsUpTo(SpecAlphabet, MaxSpecLen) \ {<<>>}
    /\ parts = <<>>
    /\ partIdx = 0
    /\ pages = {}
    /\ parseState = "start"
    /\ parseError = ""
    /\ CleanIdle
    /\ TextIdle
    /\ ToolIdle

NextParse == ParseSplit \/ ParsePart \/ ParseReturn

SpecParse == InitParse /\ [][NextParse]_vars

---------------------------------------------------------------------------
(* cleanMarkdownContent *)

\* the lines documents are made of: plain text in two letter cases and with
\* surrounding white space, blank lines, and one line of each protected shape
LinePool ==
    { <<>>,
      <<" ">>,
      <<"a">>,
      <<" ", "a">>,
      <<"A">>,
      <<"7">>,
      <<"p", "a", "g", "e", " ", "7">>,
      <<"[", "1", "]">>,
      <<"D", "o", "i", ":">> }

\* Map.prototype.set
MapSet(m, k, v) == [x \in DOMAIN m \cup {k} |-> IF x = k THEN v ELSE m[x]]

\* lineCounts.get(k) || 0
MapGetOr0(m, k) == IF k \in DOMAIN m THEN m[k] ELSE 0

LineKeyCaseFolded(line) == LowerStr(Trim(line))

\* const trimmed = line.trim(): what a line is counted and looked up as
LineKey(line) == Trim(line)

RepetitionThresholdOffByOne == 3 + 1

\* if (count >= 3)
RepetitionThreshold == 3

\* /^Page \d+/i
MatchesPageMarker(line) ==
    /\ Len(line) >= 6
    /\ LowerStr(SubSeq(line, 1, 5)) = <<"p", "a", "g", "e", " ">>
    /\ IsDigit(line[6])

\* /^\[\d+\]/
MatchesFootnote(line) ==
    /\ StartsWith(line, "[")
    /\ \E k \in 3..Len(line) :
         /\ line[k] = "]"
         /\ \A j \in 2..(k - 1) : IsDigit(line[j])

\* /doi:/i
MatchesDoi(line) ==
    \E i \in 1..(Len(line) - 3) :
        LowerStr(SubSeq(line, i, i + 3)) = <<"d", "o", "i", ":">>

\* /^\d+$/
MatchesBareNumber(line) ==
    Len(line) > 0 /\ \A i \in 1..Len(line) : IsDigit(line[i])

IsProtectedNoBareNumber(line) ==
    \/ MatchesPageMarker(line)
    \/ MatchesFootnote(line)
    \/ MatchesDoi(line)

\* the four patterns that keep a line whatever its count
IsProtected(line) ==
    \/ MatchesPageMarker(line)
    \/ MatchesFootnote(line)
    \/ MatchesDoi(line)
    \/ MatchesBareNumber(line)

\* the first loop: count every line whose trimmed form is not empty
RECURSIVE CountInto(_, _)
CountInto(ls, m) ==
    IF ls = <<>> THEN m
    ELSE LET trimmed == LineKey(Head(ls)) IN
         CountInto(Tail(ls),
                   IF Len(trimmed) > 0
                   THEN MapSet(m, trimmed, MapGetOr0(m, trimmed) + 1)
                   ELSE m)

CountLines(ls) == CountInto(ls, <<>>)

\* the second loop: the counted lines at or over the threshold that no
\* protected pattern matches
RepetitiveSet(counts) ==
    {line \in DOMAIN counts :
        counts[line] >= RepetitionThreshold /\ ~IsProtected(line)}

FilterLinesTrimmed(ls, rep) ==
    LET Keep(line) == Len(LineKey(line)) = 0 \/ LineKey(line) \notin rep
        kept == SelectSeq(ls, Keep)
    IN  [i \in 1..Len(kept) |-> LineKey(kept[i])]

\* lines.filter(...): keep blank lines and lines not in the repetitive set
FilterLines(ls, rep) ==
    LET Keep(line) == Len(LineKey(line)) = 0 \/ LineKey(line) \notin rep
    IN  SelectSeq(ls, Keep)

MethodLabelOther == "none"

MethodLabel == "lightweight inline deduplication"

\* the whole function: [cleanedContent, method]
CleanMarkdownContent(c) ==
    LET ls  == Split(c, NL)
        rep == RepetitiveSet(CountLines(ls))
    IN  <<Join(FilterLines(ls, rep), NL), MethodLabel>>

\* The Worker's cleanMarkdownContent (worker.ts)

\* if (count >= 3)
WorkerRepetitionThreshold == 3

WorkerIsKeptNoDoi(line) ==
    \/ MatchesPageMarker(line)
    \/ MatchesFootnote(line)
    \/ MatchesBareNumber(line)

\* !line.match(/^Page \d+/i) && !line.match(/^\[\d+\]/) &&
\* !line.match(/doi:/i) && !line.match(/^\d+$/)
WorkerIsKept(line) ==
    \/ MatchesPageMarker(line)
    \/ MatchesFootnote(line)
    \/ MatchesDoi(line)
    \/ MatchesBareNumber(line)

\* for (const line of lines) { const trimmed = line.trim(); if
\* (trimmed.length > 0) lineCounts.set(trimmed, (lineCounts.get(trimmed) ||
\* 0) + 1) }: the count of each trimmed line that is not empty
WorkerLineCounts(ls) ==
    LET keys == {Trim(ls[i]) : i \in 1..Len(ls)} \ {<<>>}
    IN  [k \in keys |-> Cardinality({i \in 1..Len(ls) : Trim(ls[i]) = k})]

\* for (const [line, count] of lineCounts.entries()) { if (count >= 3) { if
\* (...) repetitiveLines.add(line) } }
WorkerRepetitiveLines(counts) ==
    {line \in DOMAIN counts :
        counts[line] >= WorkerRepetitionThreshold /\ ~WorkerIsKept(line)}

\* lines.filter((line) => { const trimmed = line.trim(); return
\* trimmed.length === 0 || !repetitiveLines.has(trimmed) })
WorkerCleanedLines(ls, rep) ==
    LET Kept(line) == Len(Trim(line)) = 0 \/ Trim(line) \notin rep
    IN  SelectSeq(ls, Kept)

\* return [cleanedContent, "lightweight inline deduplication"]
WorkerMethodLabel == "lightweight inline deduplication"

\* the whole function of the Worker: [cleanedContent, method]
WorkerCleanMarkdownContent(c) ==
    LET ls  == Split(c, NL)
        rep == WorkerRepetitiveLines(WorkerLineCounts(ls))
    IN  <<Join(WorkerCleanedLines(ls, rep), NL), WorkerMethodLabel>>

\* const lines = content.split("\n"); const lineCounts = new Map()
CleanSplit ==
    /\ cleanState = "start"
    /\ lines' = Split(content, NL)
    /\ lineCounts' = <<>>
    /\ cleanState' = "split"
    /\ UNCHANGED <<content, repetitiveLines, cleanedLines, cleanedContent,
                   cleanMethod, parseVars, textVars, toolVars>>

\* for (const line of lines) { ... lineCounts.set(...) }
CleanCount ==
    /\ cleanState = "split"
    /\ lineCounts' = CountLines(lines)
    /\ cleanState' = "counted"
    /\ UNCHANGED <<content, lines, repetitiveLines, cleanedLines,
                   cleanedContent, cleanMethod, parseVars, textVars, toolVars>>

\* for (const [line, count] of lineCounts.entries()) { ... }
CleanIdentify ==
    /\ cleanState = "counted"
    /\ repetitiveLines' = RepetitiveSet(lineCounts)
    /\ cleanState' = "identified"
    /\ UNCHANGED <<content, lines, lineCounts, cleanedLines, cleanedContent,
                   cleanMethod, parseVars, textVars, toolVars>>

\* const cleanedLines = lines.filter(...)
CleanFilter ==
    /\ cleanState = "identified"
    /\ cleanedLines' = FilterLines(lines, repetitiveLines)
    /\ cleanState' = "filtered"
    /\ UNCHANGED <<content, lines, lineCounts, repetitiveLines,
                   cleanedContent, cleanMethod, parseVars, textVars, toolVars>>

\* return [cleanedLines.join("\n"), "lightweight inline deduplication"]
CleanReturn ==
    /\ cleanState = "filtered"
    /\ cleanedContent' = Join(cleanedLines, NL)
    /\ cleanMethod' = MethodLabel
    /\ cleanState' = "returned"
    /\ UNCHANGED <<content, lines, lineCounts, repetitiveLines, cleanedLines,
                   parseVars, textVars, toolVars>>

\* the documents of one to MaxLines lines of the pool
Documents == UNION {[1..n -> LinePool] : n \in 1..MaxLines}

\* a call of cleanMarkdownContent on any such document
InitClean ==
    /\ content \in {Join(d, NL) : d \in Documents}
    /\ lines = <<>>
    /\ lineCounts = <<>>
    /\ repetitiveLines = {}
    /\ cleanedLines = <<>>
    /\ cleanedContent = <<>>
    /\ cleanMethod = ""
    /\ cleanState = "start"
    /\ ParseIdle
    /\ TextIdle
    /\ ToolIdle

NextClean == CleanSplit \/ CleanCount \/ CleanIdentify \/ CleanFilter \/ CleanReturn

SpecClean == InitClean /\ [][NextClean]_vars

---------------------------------------------------------------------------
(* markdownToText *)

\* the . of a regular expression without the s flag: any character but a
\* line terminator
IsDot(c) == c \notin {"\n", "\r"}

Least(S) == CHOOSE x \in S : \A y \in S : x <= y

\* where /!\[.*?\]\(.*?\)/ matches from position i: the position of the
\* closing ')' (0 when there is no match at i); both .*? are lazy, so the
\* first "](" that can be completed is taken, then the first ')'
ImageMatchEnd(s, i) ==
    LET Closes(j) == {k \in (j + 2)..Len(s) :
                         s[k] = ")" /\ \A x \in (j + 2)..(k - 1) : IsDot(s[x])}
        Mids == {j \in (i + 2)..(Len(s) - 1) :
                    /\ s[j] = "]" /\ s[j + 1] = "("
                    /\ \A x \in (i + 2)..(j - 1) : IsDot(s[x])
                    /\ Closes(j) # {}}
    IN  IF i + 1 <= Len(s) /\ s[i] = "!" /\ s[i + 1] = "[" /\ Mids # {}
        THEN Least(Closes(Least(Mids)))
        ELSE 0

\* text.replace(/!\[.*?\]\(.*?\)/g, ""): scan from the left, skip each match
RECURSIVE DropImagesFrom(_, _)
DropImagesFrom(s, i) ==
    IF i > Len(s) THEN <<>>
    ELSE IF ImageMatchEnd(s, i) > 0 THEN DropImagesFrom(s, ImageMatchEnd(s, i) + 1)
    ELSE <<s[i]>> \o DropImagesFrom(s, i + 1)

DropImages(s) == DropImagesFrom(s, 1)

\* /\[([^\]]+)\]\([^\)]+\)/ at position i: '[', one or more characters up
\* to the first ']', '(', one or more characters up to the first ')'
LinkMatch(s, i) ==
    LET Rights == {j \in (i + 1)..Len(s) : s[j] = "]"}
        j == Least(Rights)
        Closes == {k \in (j + 2)..Len(s) : s[k] = ")"}
        k == Least(Closes)
    IN  IF /\ i <= Len(s) /\ s[i] = "[" /\ Rights # {}
           /\ j >= i + 2 /\ j + 1 <= Len(s) /\ s[j + 1] = "("
           /\ Closes # {} /\ k >= j + 3
        THEN [end |-> k, text |-> SubSeq(s, i + 1, j - 1)]
        ELSE [end |-> 0, text |-> <<>>]

\* text.replace(/\[([^\]]+)\]\([^\)]+\)/g, "$1")
RECURSIVE KeepLinkTextFrom(_, _)
KeepLinkTextFrom(s, i) ==
    IF i > Len(s) THEN <<>>
    ELSE IF LinkMatch(s, i).end > 0
    THEN LinkMatch(s, i).text \o KeepLinkTextFrom(s, LinkMatch(s, i).end + 1)
    ELSE <<s[i]>> \o KeepLinkTextFrom(s, i + 1)

KeepLinkText(s) == KeepLinkTextFrom(s, 1)

\* the grave accent, a character a string literal here cannot hold
GraveAccent == "grave"

IsMarkerNoStar(c) == c \in {"#", "_", GraveAccent, "~"}

IsMarker(c) == c \in {"#", "*", "_", GraveAccent, "~"}

\* text.replace(/[#*_`~]+/g, "")
RemoveMarkers(s) == LET Kept(c) == ~IsMarker(c) IN SelectSeq(s, Kept)

NewlineRunMinOffByOne == 3 + 1

\* the 3 of /\n{3,}/
NewlineRunMin == 3

\* the length of the run of line feeds that starts at position i
RECURSIVE NewlineRun(_, _)
NewlineRun(s, i) ==
    IF i <= Len(s) /\ s[i] = NL THEN 1 + NewlineRun(s, i + 1) ELSE 0

\* text.replace(/\n{3,}/g, "\n\n")
RECURSIVE NormalizeNewlinesFrom(_, _)
NormalizeNewlinesFrom(s, i) ==
    IF i > Len(s) THEN <<>>
    ELSE IF NewlineRun(s, i) >= NewlineRunMin
    THEN <<NL, NL>> \o NormalizeNewlinesFrom(s, i + NewlineRun(s, i))
    ELSE <<s[i]>> \o NormalizeNewlinesFrom(s, i + 1)

NormalizeNewlines(s) == NormalizeNewlinesFrom(s, 1)

\* the whole function
MarkdownToText(c) ==
    Trim(NormalizeNewlines(RemoveMarkers(KeepLinkText(DropImages(c)))))

\* let text = content; drop images
TextDropImages ==
    /\ mdState = "start"
    /\ mdText' = DropImages(mdContent)
    /\ mdState' = "images"
    /\ UNCHANGED <<mdContent, parseVars, cleanVars, toolVars>>

\* keep link text
TextKeepLinkText ==
    /\ mdState = "images"
    /\ mdText' = KeepLinkText(mdText)
    /\ mdState' = "links"
    /\ UNCHANGED <<mdContent, parseVars, cleanVars, toolVars>>

\* remove emphasis markers
TextRemoveMarkers ==
    /\ mdState = "links"
    /\ mdText' = RemoveMarkers(mdText)
    /\ mdState' = "markers"
    /\ UNCHANGED <<mdContent, parseVars, cleanVars, toolVars>>

\* normalize multiple newlines
TextNormalizeNewlines ==
    /\ mdState = "markers"
    /\ mdText' = NormalizeNewlines(mdText)
    /\ mdState' = "newlines"
    /\ UNCHANGED <<mdContent, parseVars, cleanVars, toolVars>>

\* return text.trim()
TextReturn ==
    /\ mdState = "newlines"
    /\ mdText' = Trim(mdText)
    /\ mdState' = "returned"
    /\ UNCHANGED <<mdContent, parseVars, cleanVars, toolVars>>

\* the pieces markdown texts are made of: plain text, a line feed, a heading
\* marker between line feeds, and the three parts of an image or a link
TextFragments ==
    { <<"a">>,
      <<"\n">>,
      <<"\n", "#", "\n">>,
      <<"!">>,
      <<"[", "a">>,
      <<"]", "(", "b", ")">>,
      <<"*">> }

RECURSIVE Concat(_)
Concat(fs) == IF fs = <<>> THEN <<>> ELSE Head(fs) \o Concat(Tail(fs))

\* "# Title\n\n![alt](img.png)\n[link](http://x)\n**bold**"
ExampleMarkdown ==
    <<"#", " ", "T", "i", "t", "l", "e", "\n", "\n", "!", "[", "a", "l",
      "t", "]", "(", "i", "m", "g", ".", "p", "n", "g", ")", "\n", "[",
      "l", "i", "n", "k", "]", "(", "h", "t", "t", "p", ":", "/", "/", "x",
      ")", "\n", "*", "*", "b", "o", "l", "d", "*", "*">>

\* the texts of up to MaxFrags fragments, and the example above
MarkdownTexts ==
    {Concat(fs) : fs \in UNION {[1..n -> TextFragments] : n \in 0..MaxFrags}}
        \cup {ExampleMarkdown}

\* a call of markdownToText on any such text
InitText ==
    /\ mdContent \in MarkdownTexts
    /\ mdText = <<>>
    /\ mdState = "start"
    /\ ParseIdle
    /\ CleanIdle
    /\ ToolIdle

NextText ==
    \/ TextDropImages
    \/ TextKeepLinkText
    \/ TextRemoveMarkers
    \/ TextNormalizeNewlines
    \/ TextReturn

SpecText == InitText /\ [][NextText]_vars

\* a call of either converter
InitConvert == InitClean \/ InitText

NextConvert ==
    \/ CleanSplit
    \/ CleanCount
    \/ CleanIdentify
    \/ CleanFilter
    \/ CleanReturn
    \/ TextDropImages
    \/ TextKeepLinkText
    \/ TextRemoveMarkers
    \/ TextNormalizeNewlines
    \/ TextReturn

SpecConvert == InitConvert /\ [][NextConvert]_vars

---------------------------------------------------------------------------
(* parsePageSpec as one function; the Set it returns, in iteration order *)

\* pages.add(n) for each n of ns, which has no number twice: a Set keeps
\* its members in the order of first insertion
AddAll(seq, ns) ==
    LET IsNew(n) == n \notin {seq[i] : i \in 1..Len(seq)} IN seq \o SelectSeq(ns, IsNew)

\* the numbers of S from the least to the greatest (NaN, which has no
\* place in the order, first)
Ascending(S) ==
    LET ints == {x.val : x \in {y \in S : ~y.nan}}
        lo == CHOOSE x \in ints : \A y \in ints : x <= y
        hi == CHOOSE x \in ints : \A y \in ints : x >= y
        IsMember(n) == n \in S
    IN  (IF NaN \in S THEN <<NaN>> ELSE <<>>)
        \o (IF ints = {} THEN <<>>
            ELSE SelectSeq([i \in 1..(hi - lo + 1) |-> Num(lo + i - 1)], IsMember))

\* the for-of loop from part i on; one part adds its page, or the pages of
\* its range from start to end
RECURSIVE ParseParts(_, _, _)
ParseParts(ps, i, acc) ==
    IF i > Len(ps) THEN [threw |-> FALSE, error |-> "", pages |-> acc]
    ELSE LET r == ParseToken(Trim(ps[i])) IN
         IF r.threw THEN [threw |-> TRUE, error |-> r.error, pages |-> <<>>]
         ELSE ParseParts(ps, i + 1, AddAll(acc, Ascending(r.add)))

ParsePageSpec(spec) == ParseParts(Split(spec, ","), 1, <<>>)

SeqRange(seq) == {seq[i] : i \in 1..Len(seq)}

---------------------------------------------------------------------------
(* Tool calls: requests and responses *)

ProcessPdf == "mistral_ocr_process_pdf"
ProcessUrl == "mistral_ocr_process_url"
ProcessImage == "mistral_ocr_process_image"
ExtractStructured == "mistral_ocr_extract_structured"
ExtractTables == "mistral_ocr_extract_tables"
CleanMarkdown == "mistral_ocr_clean_markdown"
UnknownTool == "some_other_tool"

LocalTools ==
    {ProcessPdf, ProcessUrl, ProcessImage, ExtractStructured, ExtractTables,
     CleanMarkdown}

WorkerTools ==
    {ProcessUrl, ProcessImage, ExtractStructured, ExtractTables, CleanMarkdown}

\* the tools of a variant that take a pages parameter
PagesTools(variant) ==
    IF variant = "local"
    THEN {ProcessPdf, ProcessUrl, ExtractStructured, ExtractTables}
    ELSE {ProcessUrl, ExtractStructured, ExtractTables}

\* the tools of a variant that take extract_header and extract_footer
HeaderFooterTools(variant) ==
    IF variant = "local" THEN {ProcessPdf, ProcessUrl} ELSE {ProcessUrl}

\* pages left out
NoPages == <<>>

\* the page specs of the calls: "3,1", "0", "1-3", "2", "1-9", "1-8,8"
\* and "3-1"
PageSpecPool ==
    { <<"3", ",", "1">>, <<"0">>, <<"1", "-", "3">>, <<"2">>,
      <<"1", "-", "9">>, <<"1", "-", "8", ",", "8">>, <<"3", "-", "1">> }

\* a parsePageSpec that accepts each of these specs
ParsedPageSpecLenient ==
    [spec \in PageSpecPool |-> [threw |-> FALSE, error |-> "", pages |-> <<>>]]

\* parsePageSpec of each of these specs
ParsedPageSpec == [spec \in PageSpecPool |-> ParsePageSpec(spec)]

Keys(k) == {"", k}

Envs ==
    [MISTRAL_API_KEY : Keys("secret-key"),
     DEFAULT_MISTRAL_API_KEY : Keys("default-key")]

AnnotationPageLimitPlusOne == 8 + 1

\* the 8 of pageNumbers.size > 8 and of slice(0, 8)
AnnotationPageLimit == 8

\* the page counts of the documents: up to MaxPages, and one document
\* longer than the annotation limit
DocPageCounts == 0..MaxPages \cup {9}

\* the calls of a variant: tool name, whether the arguments pass the input
\* schema, pages, keep_pdf, the ?apiKey= of the request URL, the
\* environment, and the number of pages of the document
Requests(variant) ==
    LET names == IF variant = "local" THEN LocalTools \cup {UnknownTool}
                 ELSE WorkerTools
    IN  UNION {
          [variant : {variant},
           name : {n},
           argsOk : BOOLEAN,
           pages : IF n \in PagesTools(variant)
                   THEN PageSpecPool \cup {NoPages} ELSE {NoPages},
           keep_pdf : IF variant = "local" /\ n = ProcessUrl
                      THEN BOOLEAN ELSE {FALSE},
           extract_header : IF n \in HeaderFooterTools(variant)
                            THEN BOOLEAN ELSE {TRUE},
           extract_footer : IF n \in HeaderFooterTools(variant)
                            THEN BOOLEAN ELSE {TRUE},
           apiKeyParam : IF variant = "worker" THEN Keys("user-key") ELSE {""},
           env : Envs,
           docPages : DocPageCounts] : n \in names}

\* a request of the Mistral client: files.upload or ocr.process, the pages
\* and the header and footer parameters of ocrParams, the key of the
\* client, and how the request ended
ServiceCall(op, ps, params, apiKey, result) ==
    [op |-> op, pages |-> ps, params |-> params, apiKey |-> apiKey,
     result |-> result]

\* ocrParams with extractHeader and extractFooter left as they are
KeepHeaderFooter(params) == params

\* ocrParams rebuilt without extractHeader and extractFooter (local), or
\* with both deleted (Worker)
WithoutHeaderFooter(params) == params \ {"extractHeader", "extractFooter"}

\* if (!extractHeader) ocrParams.extractHeader = false, and the same for
\* the footer; extract_tables passes true for both, and the OCR call of
\* extract_structured has neither
LocalOcrParams(req) ==
    (IF req.extract_header THEN {} ELSE {"extractHeader"})
    \cup (IF req.extract_footer THEN {} ELSE {"extractFooter"})

PdfPath == "document.pdf"
OutputPath == "document.txt"

Err(prefix, message) == [prefix |-> prefix, message |-> message]

NoError == Err("", "")

\* { success: false, error, suggestion } without isError
ErrorResponseUnflagged(error, suggestion) ==
    [returned |-> TRUE, success |-> FALSE, isError |-> FALSE,
     error |-> error, suggestion |-> suggestion,
     pages_processed |-> <<>>, warnings |-> <<>>, pdf_file |-> ""]

\* { content: [{ text: JSON.stringify({ success: false, error, suggestion }) }],
\*   isError: true }
ErrorResponse(error, suggestion) ==
    [returned |-> TRUE, success |-> FALSE, isError |-> TRUE,
     error |-> error, suggestion |-> suggestion,
     pages_processed |-> <<>>, warnings |-> <<>>, pdf_file |-> ""]

\* { content: [{ text: JSON.stringify({ success: true, ... }) }] }
SuccessResponse(pagesProcessed, warnings, pdfFile) ==
    [returned |-> TRUE, success |-> TRUE, isError |-> FALSE,
     error |-> NoError, suggestion |-> "",
     pages_processed |-> pagesProcessed, warnings |-> warnings,
     pdf_file |-> pdfFile]

Warning(kind, ps, total) == [kind |-> kind, pages |-> ps, total |-> total]

\* the handler's locals at the start of a call
NoLocals ==
    [downloadedPdf |-> "", hasPages |-> FALSE, pageNumbers |-> <<>>,
     apiKey |-> "", error |-> "", totalPages |-> 0,
     pagesProcessed |-> <<>>, warnings |-> <<>>]

ErrNoKey == "MISTRAL_API_KEY not found"
ErrValidation == "ZodError"
ErrFile == "ENOENT"
ErrUpload == "upload failed"
ErrOcr == "OCR request failed"
ErrWrite == "EACCES"
ErrNoPagesReturned == "Unexpected OCR response format: no pages returned"

SuggestPages == "Use format like '1,5,10-15' for page selection."
SuggestPagesStructured == "Use format like '1,5-8' for page selection."

\* [1, ..., total]
AllPages(total) == [i \in 1..total |-> Num(i)]

\* the pages 1..total that pageNumbers has, in the order of the loop
ProcessedList(pageNumbers, total) ==
    LET Has(p) == p \in SeqRange(pageNumbers) IN SelectSeq(AllPages(total), Has)

\* Array.from(pageNumbers).filter((p) => !allPages.has(p)).sort((a, b) => a - b)
InvalidPages(pageNumbers, total) ==
    Ascending(SeqRange(pageNumbers) \ SeqRange(AllPages(total)))

Take(seq, n) == SubSeq(seq, 1, IF Len(seq) < n THEN Len(seq) ELSE n)

otherVars == <<parseVars, cleanVars, textVars>>

---------------------------------------------------------------------------
(* The local server's CallToolRequest handler *)

\* where an error thrown by a tool's code is caught: process_pdf has no try
\* of its own
CatchOf(name) == IF name = ProcessPdf THEN "outerCatch" ELSE "catch"

\* return ...
Respond(r) ==
    /\ response' = r
    /\ pc' = "done"

\* throw new Error(msg), or a collaborator's error
LocalThrow(msg) ==
    /\ locals' = [locals EXCEPT !.error = msg]
    /\ pc' = CatchOf(request.name)
    /\ UNCHANGED response

\* the branch of the tool name and its Schema.parse(args)
LocalDispatch ==
    /\ request.variant = "local"
    /\ pc = "dispatch"
    /\ IF request.name \notin LocalTools
       THEN /\ Respond(ErrorResponse(Err("Unknown tool: ", request.name), ""))
            /\ UNCHANGED locals
       ELSE IF ~request.argsOk
       THEN /\ locals' = [locals EXCEPT !.error = ErrValidation]
            /\ pc' = "outerCatch"
            /\ UNCHANGED response
       ELSE /\ pc' = CASE request.name = ProcessUrl -> "download"
                       [] request.name = ProcessImage -> "image"
                       [] request.name = CleanMarkdown -> "clean"
                       [] OTHER -> "access"
            /\ UNCHANGED <<locals, response>>
    /\ UNCHANGED <<request, fsys, service, _env, _userApiKey, otherVars>>

\* fs.access(path) and, for process_pdf and extract_tables, the .pdf check
LocalAccess ==
    /\ request.variant = "local"
    /\ pc = "access"
    /\ \E outcome \in {"ok", "missing", "notPdf"} :
          CASE outcome = "missing" ->
                  Respond(ErrorResponse(
                      Err(IF request.name = ExtractStructured
                          THEN "File not found: " ELSE "PDF file not found: ", "path"),
                      IF request.name = ExtractStructured
                      THEN "Please provide an absolute path to an existing file."
                      ELSE "Please provide an absolute path to an existing PDF file."))
            [] outcome = "notPdf" /\ request.name # ExtractStructured ->
                  Respond(ErrorResponse(Err("Expected a PDF file, got: ", "ext"),
                      "Ensure the file has a .pdf extension."))
            [] OTHER ->
                  /\ pc' = IF request.name = ExtractStructured
                           THEN "schema" ELSE "pages"
                  /\ UNCHANGED response
    /\ UNCHANGED <<request, locals, fsys, service, _env, _userApiKey, otherVars>>

\* schema = buildSchemaFromJson(params.json_schema)
LocalSchema ==
    /\ request.variant = "local"
    /\ pc = "schema"
    /\ \E ok \in BOOLEAN :
          IF ok
          THEN pc' = "pages" /\ UNCHANGED response
          ELSE Respond(ErrorResponse(Err("", "Invalid JSON schema"),
                   "Ensure json_schema is valid JSON schema format."))
    /\ UNCHANGED <<request, locals, fsys, service, _env, _userApiKey, otherVars>>

\* downloadedPdf = await downloadPdfFromUrl(params.url, outputDir)
LocalDownload ==
    /\ request.variant = "local"
    /\ pc = "download"
    /\ \E ok \in BOOLEAN :
          IF ok
          THEN /\ fsys' = fsys \cup {PdfPath}
               /\ locals' = [locals EXCEPT !.downloadedPdf = PdfPath]
               /\ pc' = "pages"
               /\ UNCHANGED response
          ELSE /\ Respond(ErrorResponse(Err("Failed to download PDF: ", "HTTP error"),
                     "Check the URL is accessible and points to a valid PDF."))
               /\ UNCHANGED <<fsys, locals>>
    /\ UNCHANGED <<request, service, _env, _userApiKey, otherVars>>

\* the suggestion of a tool's "Invalid page specification" response
LocalPagesSuggestion(name) ==
    IF name = ExtractStructured THEN SuggestPagesStructured ELSE SuggestPages

\* if (params.pages) { try { pageNumbers = parsePageSpec(params.pages) } ... }
LocalParsePages ==
    /\ request.variant = "local"
    /\ pc = "pages"
    /\ IF request.pages = NoPages
       THEN pc' = "apiKey" /\ UNCHANGED <<locals, response>>
       ELSE LET r == ParsedPageSpec[request.pages] IN
            IF r.threw
            THEN /\ Respond(ErrorResponse(
                        Err("Invalid page specification: ", r.error),
                        LocalPagesSuggestion(request.name)))
                 /\ UNCHANGED locals
            ELSE IF request.name = ExtractStructured
                    /\ Len(r.pages) > AnnotationPageLimit
            THEN /\ Respond(ErrorResponse(
                        Err("Document annotation is limited to 8 pages", ""),
                        "Use pages parameter to select 8 or fewer pages."))
                 /\ UNCHANGED locals
            ELSE /\ locals' = [locals EXCEPT !.hasPages = TRUE,
                                             !.pageNumbers = r.pages]
                 /\ pc' = "apiKey"
                 /\ UNCHANGED response
    /\ UNCHANGED <<request, fsys, service, _env, _userApiKey, otherVars>>

\* const apiKey = getApiKey(), from process.env.MISTRAL_API_KEY
LocalGetApiKey ==
    /\ request.variant = "local"
    /\ pc = "apiKey"
    /\ IF request.env.MISTRAL_API_KEY = ""
       THEN LocalThrow(ErrNoKey)
       ELSE /\ locals' = [locals EXCEPT !.apiKey = request.env.MISTRAL_API_KEY]
            /\ pc' = "upload"
            /\ UNCHANGED response
    /\ UNCHANGED <<request, fsys, service, _env, _userApiKey, otherVars>>

\* fs.readFile, client.files.upload and client.files.getSignedUrl; an
\* image given to extract_structured is encoded instead, without upload
LocalUpload ==
    /\ request.variant = "local"
    /\ pc = "upload"
    /\ \E outcome \in {"ok", "unreadable", "refused", "image"} :
          CASE outcome = "unreadable" ->
                  LocalThrow(ErrFile) /\ UNCHANGED service
            [] outcome = "refused" ->
                  /\ LocalThrow(ErrUpload)
                  /\ service' = Append(service,
                        ServiceCall("upload", <<>>, {}, locals.apiKey, "failed"))
            [] outcome = "image" /\ request.name = ExtractStructured ->
                  /\ pc' = "ocr"
                  /\ UNCHANGED <<locals, response, service>>
            [] OTHER ->
                  /\ service' = Append(service,
                        ServiceCall("upload", <<>>, {}, locals.apiKey, "ok"))
                  /\ pc' = "ocr"
                  /\ UNCHANGED <<locals, response>>
    /\ UNCHANGED <<request, fsys, _env, _userApiKey, otherVars>>

\* response = await client.ocr.process(ocrParams): the document is sent
\* whole; an error that names extractHeader or extractFooter (for
\* extract_structured, documentAnnotationFormat) leads to a second call
LocalOcr ==
    /\ request.variant = "local"
    /\ pc = "ocr"
    /\ \E outcome \in {"ok", "unsupported", "failed"} :
       /\ service' = Append(service,
             ServiceCall("ocr", <<>>, LocalOcrParams(request), locals.apiKey,
                         outcome))
       /\ CASE outcome = "ok" ->
                  /\ locals' = [locals EXCEPT !.totalPages = request.docPages]
                  /\ pc' = "select"
                  /\ UNCHANGED response
            [] outcome = "unsupported" ->
                  /\ locals' = [locals EXCEPT !.warnings =
                        IF request.name = ExtractStructured
                        THEN <<Warning("annotation_unsupported", <<>>, 0)>>
                        ELSE <<>>]
                  /\ pc' = "retry"
                  /\ UNCHANGED response
            [] OTHER -> LocalThrow(ErrOcr)
    /\ UNCHANGED <<request, fsys, _env, _userApiKey, otherVars>>

\* the second client.ocr.process(ocrParams), outside the try
LocalOcrRetry ==
    /\ request.variant = "local"
    /\ pc = "retry"
    /\ \E ok \in BOOLEAN :
       /\ service' = Append(service,
             ServiceCall("ocr", <<>>, WithoutHeaderFooter(LocalOcrParams(request)),
                         locals.apiKey, IF ok THEN "ok" ELSE "failed"))
       /\ IF ok
          THEN /\ locals' = [locals EXCEPT !.totalPages = request.docPages]
               /\ pc' = "select"
               /\ UNCHANGED response
          ELSE LocalThrow(ErrOcr)
    /\ UNCHANGED <<request, fsys, _env, _userApiKey, otherVars>>

\* processPdfOcr: the pages kept and the out-of-range warning;
\* extract_structured: every page of the response, the first 8 at most
LocalSelectPages ==
    /\ request.variant = "local"
    /\ pc = "select"
    /\ LET total == locals.totalPages
           invalid == InvalidPages(locals.pageNumbers, total)
       IN  locals' =
             IF request.name = ExtractStructured
             THEN [locals EXCEPT
                     !.pagesProcessed = Take(AllPages(total), AnnotationPageLimit),
                     !.warnings =
                        IF locals.hasPages /\ total > AnnotationPageLimit
                        THEN Append(locals.warnings, Warning("first_8", <<>>, total))
                        ELSE locals.warnings]
             ELSE IF locals.hasPages
             THEN [locals EXCEPT
                     !.pagesProcessed = ProcessedList(locals.pageNumbers, total),
                     !.warnings =
                        IF Len(invalid) > 0
                        THEN <<Warning("out_of_range", invalid, total)>>
                        ELSE <<>>]
             ELSE [locals EXCEPT !.pagesProcessed = AllPages(total),
                                 !.warnings = <<>>]
    /\ pc' = "finish"
    /\ UNCHANGED <<request, fsys, service, response, _env, _userApiKey, otherVars>>

\* the rest of a PDF tool: the output file, the downloaded PDF, the response
LocalFinish ==
    /\ request.variant = "local"
    /\ pc = "finish"
    /\ \E written \in {"no", "yes", "failed"} :
          /\ request.name = ProcessUrl => written # "no"
          /\ request.name = ExtractStructured => written = "no"
          /\ IF written = "failed"
             THEN LocalThrow(ErrWrite) /\ UNCHANGED fsys
             ELSE /\ fsys' =
                       (fsys \cup (IF written = "yes" THEN {OutputPath} ELSE {}))
                       \ (IF request.name = ProcessUrl /\ ~request.keep_pdf
                          THEN {locals.downloadedPdf} ELSE {})
                  /\ Respond(SuccessResponse(locals.pagesProcessed, locals.warnings,
                        IF request.name = ProcessUrl /\ request.keep_pdf
                        THEN locals.downloadedPdf ELSE ""))
                  /\ UNCHANGED locals
    /\ UNCHANGED <<request, service, _env, _userApiKey, otherVars>>

\* process_image: processImageOcr and the response
LocalImage ==
    /\ request.variant = "local"
    /\ pc = "image"
    /\ IF request.env.MISTRAL_API_KEY = ""
       THEN LocalThrow(ErrNoKey) /\ UNCHANGED service
       ELSE \E outcome \in {"ok", "missing", "failed"} :
              CASE outcome = "missing" ->
                      LocalThrow("Image file not found") /\ UNCHANGED service
                [] outcome = "failed" ->
                      /\ LocalThrow(ErrOcr)
                      /\ service' = Append(service,
                            ServiceCall("ocr", <<>>, {},
                                        request.env.MISTRAL_API_KEY, "failed"))
                [] OTHER ->
                      /\ service' = Append(service,
                            ServiceCall("ocr", <<>>, {},
                                        request.env.MISTRAL_API_KEY, "ok"))
                      /\ Respond(SuccessResponse(<<>>, <<>>, ""))
                      /\ UNCHANGED locals
    /\ UNCHANGED <<request, fsys, _env, _userApiKey, otherVars>>

\* clean_markdown: cleanMarkdownContent and the response
LocalClean ==
    /\ request.variant = "local"
    /\ pc = "clean"
    /\ Respond(SuccessResponse(<<>>, <<>>, ""))
    /\ UNCHANGED <<request, locals, fsys, service, _env, _userApiKey, otherVars>>

\* e.message.includes("MISTRAL_API_KEY")
NamesApiKey(msg) == msg = ErrNoKey

\* e.message.includes("not found")
SaysNotFound(msg) == msg \in {ErrNoKey, "Image file not found"}

\* the error of a tool's own catch block
LocalCatchError(name, msg) ==
    CASE name = ProcessUrl -> Err("Processing failed: ", msg)
      [] name = ProcessImage ->
            IF SaysNotFound(msg) THEN Err("", msg)
            ELSE Err("Image OCR processing failed: ", msg)
      [] name = ExtractStructured ->
            IF NamesApiKey(msg) THEN Err("", msg)
            ELSE Err("Structured extraction failed: ", msg)
      [] name = ExtractTables ->
            IF NamesApiKey(msg) THEN Err("", msg)
            ELSE Err("Table extraction failed: ", msg)
      [] OTHER -> Err("Cleaning failed: ", msg)

\* the suggestion of a tool's own catch block
LocalCatchSuggestion(name, msg) ==
    CASE name = ProcessUrl ->
            IF NamesApiKey(msg)
            THEN "Check your MISTRAL_API_KEY environment variable."
            ELSE "Ensure the URL points to a valid PDF file."
      [] name = ProcessImage ->
            IF SaysNotFound(msg)
            THEN "Check that the image file exists at the specified path."
            ELSE "Ensure the image is valid and in a supported format (PNG, JPG, etc.)."
      [] name = ExtractStructured ->
            IF NamesApiKey(msg)
            THEN "Check your MISTRAL_API_KEY environment variable."
            ELSE "Ensure the file is valid and the schema is correct."
      [] name = ExtractTables ->
            IF NamesApiKey(msg)
            THEN "Check your MISTRAL_API_KEY environment variable."
            ELSE "Ensure the PDF is valid and contains tables."
      [] OTHER -> "Ensure the content is valid markdown text."

\* a tool's own catch block; process_url first unlinks the downloaded PDF
\* unless keep_pdf
LocalCatch ==
    /\ request.variant = "local"
    /\ pc = "catch"
    /\ fsys' = IF /\ request.name = ProcessUrl
                  /\ locals.downloadedPdf # ""
                  /\ ~request.keep_pdf
               THEN fsys \ {locals.downloadedPdf}
               ELSE fsys
    /\ Respond(ErrorResponse(LocalCatchError(request.name, locals.error),
                             LocalCatchSuggestion(request.name, locals.error)))
    /\ UNCHANGED <<request, locals, service, _env, _userApiKey, otherVars>>

\* the catch block around the whole handler
LocalOuterCatch ==
    /\ request.variant = "local"
    /\ pc = "outerCatch"
    /\ Respond(ErrorResponse(Err("Tool execution failed: ", locals.error),
                             "Check the input parameters and try again."))
    /\ UNCHANGED <<request, locals, fsys, service, _env, _userApiKey, otherVars>>

---------------------------------------------------------------------------
(* The Worker's fetch and tool handlers *)

\* an error thrown inside a handler's try
WorkerThrow(msg) ==
    /\ locals' = [locals EXCEPT !.error = msg]
    /\ pc' = "catch"
    /\ UNCHANGED response

\* fetch: _env = env; _userApiKey = url.searchParams.get("apiKey")
WorkerFetch ==
    /\ request.variant = "worker"
    /\ pc = "fetch"
    /\ _env' = request.env
    /\ _userApiKey' = request.apiKeyParam
    /\ pc' = "handler"
    /\ UNCHANGED <<request, locals, fsys, service, response, otherVars>>

\* const input = Schema.parse(params)
WorkerParseInput ==
    /\ request.variant = "worker"
    /\ pc = "handler"
    /\ IF ~request.argsOk
       THEN WorkerThrow(ErrValidation)
       ELSE /\ pc' = IF request.name = CleanMarkdown THEN "clean" ELSE "apiKey"
            /\ UNCHANGED <<locals, response>>
    /\ UNCHANGED <<request, fsys, service, _env, _userApiKey, otherVars>>

\* _userApiKey || _env?.MISTRAL_API_KEY
WorkerApiKey(userApiKey, env) ==
    IF userApiKey # "" THEN userApiKey ELSE env.MISTRAL_API_KEY

\* const apiKey = getApiKey()
WorkerGetApiKey ==
    /\ request.variant = "worker"
    /\ pc = "apiKey"
    /\ LET apiKey == WorkerApiKey(_userApiKey, _env)
       IN  IF apiKey = ""
           THEN WorkerThrow(ErrNoKey)
           ELSE /\ locals' = [locals EXCEPT !.apiKey = apiKey]
                /\ pc' = CASE request.name = ProcessImage -> "image"
                           [] request.name = ExtractStructured -> "schema"
                           [] OTHER -> "pages"
                /\ UNCHANGED response
    /\ UNCHANGED <<request, fsys, service, _env, _userApiKey, otherVars>>

\* const schema = buildSchemaFromJson(input.json_schema)
WorkerSchema ==
    /\ request.variant = "worker"
    /\ pc = "schema"
    /\ \E ok \in BOOLEAN :
          IF ok
          THEN pc' = "pages" /\ UNCHANGED <<locals, response>>
          ELSE WorkerThrow("Invalid JSON schema")
    /\ UNCHANGED <<request, fsys, service, _env, _userApiKey, otherVars>>

\* if (pages) { const pageSet = parsePageSpec(pages);
\*              ocrParams.pages = Array.from(pageSet) }
WorkerParsePages ==
    /\ request.variant = "worker"
    /\ pc = "pages"
    /\ IF request.pages = NoPages
       THEN pc' = "ocr" /\ UNCHANGED <<locals, response>>
       ELSE LET r == ParsedPageSpec[request.pages] IN
            IF r.threw
            THEN WorkerThrow(r.error)
            ELSE /\ locals' = [locals EXCEPT !.hasPages = TRUE,
                                             !.pageNumbers = r.pages]
                 /\ pc' = "ocr"
                 /\ UNCHANGED response
    /\ UNCHANGED <<request, fsys, service, _env, _userApiKey, otherVars>>

\* the tools that go through the Worker's processPdfOcr
UsesProcessPdfOcr(name) == name \in {ProcessUrl, ExtractTables}

\* ocrParams.extractHeader = extractHeader; ocrParams.extractFooter =
\* extractFooter, whatever their values; the OCR call of extract_structured
\* has neither
WorkerOcrParams(req) ==
    IF UsesProcessPdfOcr(req.name) THEN {"extractHeader", "extractFooter"}
    ELSE {}

\* client.ocr.process(ocrParams), with the pages of the spec when given:
\* the service answers with some pages, with none, or fails; processPdfOcr
\* calls again after a TypeError
WorkerOcr ==
    /\ request.variant = "worker"
    /\ pc = "ocr"
    /\ \E outcome \in {"ok", "typeError", "noPages", "failed"} :
       /\ service' = Append(service,
             ServiceCall("ocr", locals.pageNumbers, WorkerOcrParams(request),
                         locals.apiKey, outcome))
       /\ CASE outcome = "ok" \/ (outcome = "noPages" /\ ~UsesProcessPdfOcr(request.name)) ->
                  /\ \E n \in DocPageCounts :
                        /\ ~locals.hasPages => n = request.docPages
                        /\ locals' = [locals EXCEPT !.totalPages = n]
                  /\ pc' = "finish"
                  /\ UNCHANGED response
            [] outcome = "typeError" /\ UsesProcessPdfOcr(request.name) ->
                  /\ locals' = [locals EXCEPT !.warnings =
                                   <<Warning("retry", <<>>, 0)>>]
                  /\ pc' = "retry"
                  /\ UNCHANGED response
            [] outcome = "noPages" -> WorkerThrow(ErrNoPagesReturned)
            [] OTHER -> WorkerThrow(ErrOcr)
    /\ UNCHANGED <<request, fsys, _env, _userApiKey, otherVars>>

\* the second client.ocr.process(ocrParams), without extractHeader and
\* extractFooter
WorkerOcrRetry ==
    /\ request.variant = "worker"
    /\ pc = "retry"
    /\ \E outcome \in {"ok", "noPages", "failed"} :
       /\ service' = Append(service,
             ServiceCall("ocr", locals.pageNumbers,
                         WithoutHeaderFooter(WorkerOcrParams(request)),
                         locals.apiKey, outcome))
       /\ CASE outcome = "ok" ->
                  /\ \E n \in DocPageCounts :
                        /\ ~locals.hasPages => n = request.docPages
                        /\ locals' = [locals EXCEPT !.totalPages = n]
                  /\ pc' = "finish"
                  /\ UNCHANGED response
            [] outcome = "noPages" -> WorkerThrow(ErrNoPagesReturned)
            [] OTHER -> WorkerThrow(ErrOcr)
    /\ UNCHANGED <<request, fsys, _env, _userApiKey, otherVars>>

\* const pagesProcessed = ocrParams.pages || [1, ..., pageCount], and the
\* response of the tool
WorkerFinish ==
    /\ request.variant = "worker"
    /\ pc = "finish"
    /\ LET pagesProcessed == IF locals.hasPages THEN locals.pageNumbers
                             ELSE AllPages(locals.totalPages)
       IN  /\ locals' = [locals EXCEPT !.pagesProcessed = pagesProcessed]
           /\ Respond(IF request.name = ProcessUrl
                      THEN SuccessResponse(pagesProcessed, locals.warnings, "")
                      ELSE SuccessResponse(<<>>, <<>>, ""))
    /\ UNCHANGED <<request, fsys, service, _env, _userApiKey, otherVars>>

\* process_image: processImageOcr and the response
WorkerImage ==
    /\ request.variant = "worker"
    /\ pc = "image"
    /\ \E outcome \in {"ok", "noPages", "failed"} :
       /\ service' = Append(service,
             ServiceCall("ocr", <<>>, {}, locals.apiKey, outcome))
       /\ CASE outcome = "ok" ->
                  Respond(SuccessResponse(<<>>, <<>>, "")) /\ UNCHANGED locals
            [] outcome = "noPages" -> WorkerThrow(ErrNoPagesReturned)
            [] OTHER -> WorkerThrow(ErrOcr)
    /\ UNCHANGED <<request, fsys, _env, _userApiKey, otherVars>>

\* clean_markdown: cleanMarkdownContent and the response
WorkerClean ==
    /\ request.variant = "worker"
    /\ pc = "clean"
    /\ Respond(SuccessResponse(<<>>, <<>>, ""))
    /\ UNCHANGED <<request, locals, fsys, service, _env, _userApiKey, otherVars>>

\* the suggestion of a handler's catch block (clean_markdown gives none)
WorkerSuggestion(name) ==
    CASE name = ProcessUrl -> "Check URL is valid and points to a PDF file"
      [] name = ProcessImage -> "Check image source is valid URL or base64 data"
      [] name = ExtractStructured -> "Check source and JSON schema are valid"
      [] name = ExtractTables -> "Check source is valid"
      [] OTHER -> ""

\* catch (error): { success: false, error: error.message, suggestion }
WorkerCatch ==
    /\ request.variant = "worker"
    /\ pc = "catch"
    /\ Respond(ErrorResponse(Err("", locals.error), WorkerSuggestion(request.name)))
    /\ UNCHANGED <<request, locals, fsys, service, _env, _userApiKey, otherVars>>

---------------------------------------------------------------------------
(* One tool call *)

InitTools ==
    /\ request \in Requests("local") \cup Requests("worker")
    /\ pc = IF request.variant = "worker" THEN "fetch" ELSE "dispatch"
    /\ locals = NoLocals
    /\ fsys = {}
    /\ service = <<>>
    /\ response = NoResponse
    /\ _env = NoEnv
    /\ _userApiKey = ""
    /\ ParseIdle
    /\ CleanIdle
    /\ TextIdle

NextTools ==
    \/ LocalDispatch
    \/ LocalAccess
    \/ LocalSchema
    \/ LocalDownload
    \/ LocalParsePages
    \/ LocalGetApiKey
    \/ LocalUpload
    \/ LocalOcr
    \/ LocalOcrRetry
    \/ LocalSelectPages
    \/ LocalFinish
    \/ LocalImage
    \/ LocalClean
    \/ LocalCatch
    \/ LocalOuterCatch
    \/ WorkerFetch
    \/ WorkerParseInput
    \/ WorkerGetApiKey
    \/ WorkerSchema
    \/ WorkerParsePages
    \/ WorkerOcr
    \/ WorkerOcrRetry
    \/ WorkerFinish
    \/ WorkerImage
    \/ WorkerClean
    \/ WorkerCatch

SpecTools == InitTools /\ [][NextTools]_vars

---------------------------------------------------------------------------
(* The content of a response: what processPdfOcr and the handlers make of
   the pages that the OCR service answers with *)

\* the characters of a string literal
Chars(str) == [i \in 1..Len(str) |-> SubSeq(str, i, i)]

\* String.prototype.includes
IncludesWord(s, w) ==
    \E i \in 1..(Len(s) - Len(w) + 1) : SubSeq(s, i, i + Len(w) - 1) = w

\* String.prototype.startsWith and endsWith
StartsWithWord(s, w) == Len(s) >= Len(w) /\ SubSeq(s, 1, Len(w)) = w

EndsWithWord(s, w) ==
    Len(s) >= Len(w) /\ SubSeq(s, Len(s) - Len(w) + 1, Len(s)) = w

\* Array.prototype.join
RECURSIVE JoinWith(_, _)
JoinWith(ls, sep) ==
    IF ls = <<>> THEN <<>>
    ELSE IF Len(ls) = 1 THEN Head(ls)
    ELSE Head(ls) \o sep \o JoinWith(Tail(ls), sep)

\* a field that is undefined or null, and one that has a value
NoValue == [present |-> FALSE, value |-> <<>>]

Some(v) == [present |-> TRUE, value |-> v]

\* configUsed: string | null = null
NullConfig == "null"

\* a page of an OCR response: its markdown and how many tables and images
\* it has
OcrPage(markdown, tables, images) ==
    [markdown |-> markdown, tables |-> tables, images |-> images]

\* the markdown of a page: plain text, a link, a link to a picture
PageMarkdownPool == {Chars("x"), Chars("[a](b)"), Chars("[a](c.png)")}

\* pages of text: markdown of the pool, no tables, no images
TextPages == {OcrPage(md, 0, 0) : md \in PageMarkdownPool}

\* pages of tables and images: up to two tables, up to one image
TablePages == {OcrPage(Chars("x"), t, i) : t \in {0, 1, 2}, i \in {0, 1}}

\* the OCR responses of one to MaxPages pages of a kind
OcrResponses(kind) == UNION {[1..n -> kind] : n \in 1..MaxPages}

\* the page specs of these calls: none, "2" and "3,1"
ContentPageSpecs == {NoPages, <<"2">>, <<"3", ",", "1">>}

\* the calls whose content is followed: the text calls, with every choice
\* of output_format, clean_output, return_content and include_hyperlinks
\* on pages of text, and the table calls, process_pdf with table_format
\* and include_images on pages of tables and images
ContentRequests ==
    UNION {
      [variant : {"local"}, name : {ProcessPdf, ProcessUrl},
       pages : ContentPageSpecs, ocrPages : OcrResponses(TextPages),
       output_format : {"markdown", "text"}, clean_output : BOOLEAN,
       return_content : BOOLEAN, include_hyperlinks : BOOLEAN,
       include_images : {FALSE}, table_format : {""}],
      [variant : {"local"}, name : {ProcessImage},
       pages : {NoPages}, ocrPages : OcrResponses(TextPages),
       output_format : {"markdown", "text"}, clean_output : BOOLEAN,
       return_content : BOOLEAN, include_hyperlinks : {FALSE},
       include_images : {FALSE}, table_format : {""}],
      [variant : {"local"}, name : {ProcessPdf},
       pages : ContentPageSpecs, ocrPages : OcrResponses(TablePages),
       output_format : {"markdown"}, clean_output : {FALSE},
       return_content : {TRUE}, include_hyperlinks : {FALSE},
       include_images : {TRUE}, table_format : {"markdown"}],
      [variant : {"worker"}, name : {ProcessUrl},
       pages : {NoPages}, ocrPages : OcrResponses(TextPages),
       output_format : {"markdown", "text"}, clean_output : BOOLEAN,
       return_content : {TRUE}, include_hyperlinks : BOOLEAN,
       include_images : {FALSE}, table_format : {""}],
      [variant : {"worker"}, name : {ProcessImage},
       pages : {NoPages}, ocrPages : OcrResponses(TextPages),
       output_format : {"markdown", "text"}, clean_output : BOOLEAN,
       return_content : {TRUE}, include_hyperlinks : {FALSE},
       include_images : {FALSE}, table_format : {""}] }

\* /\[([^\]]+)\]\(([^\)]+)\)/ at position i: '[', the text up to the first
\* ']', '(', the url up to the first ')'
HyperlinkMatch(s, i) ==
    LET Rights == {j \in (i + 1)..Len(s) : s[j] = "]"}
        j == Least(Rights)
        Closes == {k \in (j + 2)..Len(s) : s[k] = ")"}
        k == Least(Closes)
    IN  IF /\ i <= Len(s) /\ s[i] = "[" /\ Rights # {}
           /\ j >= i + 2 /\ j + 1 <= Len(s) /\ s[j + 1] = "("
           /\ Closes # {} /\ k >= j + 3
        THEN [end |-> k, text |-> SubSeq(s, i + 1, j - 1),
              url |-> SubSeq(s, j + 2, k - 1)]
        ELSE [end |-> 0, text |-> <<>>, url |-> <<>>]

ImageExtensions ==
    {Chars(".png"), Chars(".jpg"), Chars(".jpeg"), Chars(".gif"), Chars(".webp")}

\* url.startsWith("data:image") || [".png", ...].some((ext) =>
\* url.toLowerCase().endsWith(ext))
IsImageUrl(url) ==
    \/ StartsWithWord(url, Chars("data:image"))
    \/ \E ext \in ImageExtensions : EndsWithWord(LowerStr(url), ext)

\* while ((match = pattern.exec(markdownContent)) !== null): every match
\* from the left, the links to pictures skipped
RECURSIVE HyperlinksFrom(_, _)
HyperlinksFrom(s, i) ==
    IF i > Len(s) THEN <<>>
    ELSE LET m == HyperlinkMatch(s, i) IN
         IF m.end = 0 THEN HyperlinksFrom(s, i + 1)
         ELSE (IF IsImageUrl(m.url) THEN <<>>
               ELSE <<[text |-> m.text, url |-> m.url]>>)
              \o HyperlinksFrom(s, m.end + 1)

ExtractHyperlinksFromContent(markdownContent) ==
    HyperlinksFrom(markdownContent, 1)

\* the Worker's loop over linkPattern.exec(content): every match
RECURSIVE WorkerHyperlinksFrom(_, _)
WorkerHyperlinksFrom(s, i) ==
    IF i > Len(s) THEN <<>>
    ELSE LET m == HyperlinkMatch(s, i) IN
         IF m.end = 0 THEN WorkerHyperlinksFrom(s, i + 1)
         ELSE <<[text |-> m.text, url |-> m.url]>>
              \o WorkerHyperlinksFrom(s, m.end + 1)

\* page: pageIdx + 1
PositionInList(pageIdx) == pageIdx + 1

\* extractTablesFromPages: for each page of the list, for each of its
\* tables, { id: tbl-<tableId>, page: pageIdx + 1 }, tableId counted up
RECURSIVE TablesFromPage(_, _, _)
TablesFromPage(pageObjects, pageIdx, tableId) ==
    IF pageIdx >= Len(pageObjects) THEN <<>>
    ELSE LET n == pageObjects[pageIdx + 1].tables IN
         [t \in 1..n |-> [id |-> <<"tbl-", tableId + t - 1>>,
                          page |-> PositionInList(pageIdx)]]
         \o TablesFromPage(pageObjects, pageIdx + 1, tableId + n)

ExtractTablesFromPages(pageObjects) == TablesFromPage(pageObjects, 0, 0)

\* extractImagesFromPages: the same with img-<imageId>
RECURSIVE ImagesFromPage(_, _, _)
ImagesFromPage(pageObjects, pageIdx, imageId) ==
    IF pageIdx >= Len(pageObjects) THEN <<>>
    ELSE LET n == pageObjects[pageIdx + 1].images IN
         [t \in 1..n |-> [id |-> <<"img-", imageId + t - 1>>,
                          page |-> PositionInList(pageIdx)]]
         \o ImagesFromPage(pageObjects, pageIdx + 1, imageId + n)

ExtractImagesFromPages(pageObjects) == ImagesFromPage(pageObjects, 0, 0)

\* the local processPdfOcr after the OCR call: the pages kept, their
\* markdown joined, and the tables, images and hyperlinks asked for
LocalPdfOcrResult(req) ==
    LET total == Len(req.ocrPages)
        processed ==
            IF req.pages = NoPages THEN AllPages(total)
            ELSE ProcessedList(ParsedPageSpec[req.pages].pages, total)
        pageObjects ==
            [k \in 1..Len(processed) |-> req.ocrPages[processed[k].val]]
        markdownContent ==
            JoinWith([k \in 1..Len(pageObjects) |-> pageObjects[k].markdown],
                     <<NL, NL>>)
    IN  [markdown_content |-> markdownContent,
         pages_processed |-> processed,
         tables |-> IF req.table_format # ""
                    THEN Some(ExtractTablesFromPages(pageObjects)) ELSE NoValue,
         images |-> IF req.include_images
                    THEN Some(ExtractImagesFromPages(pageObjects)) ELSE NoValue,
         hyperlinks |-> IF req.include_hyperlinks
                        THEN Some(ExtractHyperlinksFromContent(markdownContent))
                        ELSE NoValue,
         cleaned |-> FALSE, configUsed |-> NullConfig]

\* the local processImageOcr after the OCR call: the markdown of the pages
\* joined
LocalImageOcrResult(req) ==
    [markdown_content |->
        JoinWith([k \in 1..Len(req.ocrPages) |-> req.ocrPages[k].markdown],
                 <<NL, NL>>),
     pages_processed |-> <<>>,
     tables |-> NoValue, images |-> NoValue, hyperlinks |-> NoValue,
     cleaned |-> FALSE, configUsed |-> NullConfig]

\* a list that is undefined when it is empty
NonEmptyOrUndefined(list) == IF Len(list) > 0 THEN Some(list) ELSE NoValue

\* the Worker's processPdfOcr after the OCR call: the markdown of the pages
\* joined, converted when the format is text, and the hyperlinks of that
\* content
WorkerPdfOcrResult(req) ==
    LET joined ==
            JoinWith([k \in 1..Len(req.ocrPages) |-> req.ocrPages[k].markdown],
                     <<NL, NL>>)
        converted == IF req.output_format = "text" THEN MarkdownToText(joined)
                   ELSE joined
        hyperlinks == IF req.include_hyperlinks
                      THEN WorkerHyperlinksFrom(converted, 1) ELSE <<>>
    IN  [markdown_content |-> converted,
         pages_processed |-> AllPages(Len(req.ocrPages)),
         tables |-> NoValue, images |-> NoValue,
         hyperlinks |-> NonEmptyOrUndefined(hyperlinks),
         cleaned |-> FALSE, configUsed |-> NullConfig]

\* the Worker's processImageOcr after the OCR call, and the conversion of
\* its handler
WorkerImageOcrResult(req) ==
    LET joined ==
            JoinWith([k \in 1..Len(req.ocrPages) |-> req.ocrPages[k].markdown],
                     <<NL, NL>>)
    IN  [markdown_content |->
            IF req.output_format = "text" THEN MarkdownToText(joined)
            ELSE joined,
         pages_processed |-> <<>>,
         tables |-> NoValue, images |-> NoValue, hyperlinks |-> NoValue,
         cleaned |-> FALSE, configUsed |-> NullConfig]

\* JSON.stringify({ success: true, content, pages_processed, cleaned,
\* config_used, tables, images, hyperlinks })
ContentResponse(body, result) ==
    [returned |-> TRUE, success |-> TRUE, isError |-> FALSE,
     content |-> body,
     pages_processed |-> result.pages_processed,
     cleaned |-> result.cleaned, config_used |-> result.configUsed,
     tables |-> result.tables, images |-> result.images,
     hyperlinks |-> result.hyperlinks]

\* const ocrResult = await processPdfOcr(...), or processImageOcr, the
\* service having answered
ContentLocalOcr ==
    /\ request.variant = "local"
    /\ pc = "content"
    /\ locals' = IF request.name = ProcessImage
                 THEN LocalImageOcrResult(request)
                 ELSE LocalPdfOcrResult(request)
    /\ pc' = "clean"
    /\ UNCHANGED <<request, fsys, service, response, _env, _userApiKey, otherVars>>

CleansAnyFormat(req) == req.clean_output

\* params.clean_output && params.output_format === "markdown"
CleansOutput(req) == req.clean_output /\ req.output_format = "markdown"

\* if (params.clean_output && params.output_format === "markdown") { ... }
ContentLocalClean ==
    /\ request.variant = "local"
    /\ pc = "clean"
    /\ locals' =
         IF CleansOutput(request)
         THEN LET r == CleanMarkdownContent(locals.markdown_content) IN
              [locals EXCEPT !.markdown_content = r[1],
                             !.configUsed = r[2],
                             !.cleaned = ~IncludesWord(r[2], "skipped")]
         ELSE locals
    /\ pc' = "respond"
    /\ UNCHANGED <<request, fsys, service, response, _env, _userApiKey, otherVars>>

\* const finalContent = ...; the response with content:
\* params.return_content ? finalContent : null
ContentLocalRespond ==
    /\ request.variant = "local"
    /\ pc = "respond"
    /\ LET finalContent ==
               IF request.output_format = "text"
               THEN MarkdownToText(locals.markdown_content)
               ELSE locals.markdown_content
       IN  Respond(ContentResponse(
               IF request.return_content THEN Some(finalContent) ELSE NoValue,
               locals))
    /\ UNCHANGED <<request, locals, fsys, service, _env, _userApiKey, otherVars>>

\* const result = await processPdfOcr(...), or processImageOcr and the
\* conversion, the service having answered
ContentWorkerOcr ==
    /\ request.variant = "worker"
    /\ pc = "content"
    /\ locals' = IF request.name = ProcessImage
                 THEN WorkerImageOcrResult(request)
                 ELSE WorkerPdfOcrResult(request)
    /\ pc' = "respond"
    /\ UNCHANGED <<request, fsys, service, response, _env, _userApiKey, otherVars>>

\* process_url: if (input.clean_output && result.content) { ...
\* result.cleaned = true }; process_image: if (input.clean_output) { ... };
\* and the response
ContentWorkerRespond ==
    /\ request.variant = "worker"
    /\ pc = "respond"
    /\ LET cleans ==
               /\ request.clean_output
               /\ request.name = ProcessUrl => Len(locals.markdown_content) > 0
           result ==
               IF cleans
               THEN [locals EXCEPT
                       !.markdown_content =
                           WorkerCleanMarkdownContent(locals.markdown_content)[1],
                       !.cleaned = (request.name = ProcessUrl)]
               ELSE locals
       IN  Respond(ContentResponse(Some(result.markdown_content), result))
    /\ UNCHANGED <<request, locals, fsys, service, _env, _userApiKey, otherVars>>

\* a call that got its OCR response
InitContent ==
    /\ request \in ContentRequests
    /\ pc = "content"
    /\ locals = NoLocals
    /\ fsys = {}
    /\ service = <<>>
    /\ response = NoResponse
    /\ _env = NoEnv
    /\ _userApiKey = ""
    /\ ParseIdle
    /\ CleanIdle
    /\ TextIdle

NextContent ==
    \/ ContentLocalOcr
    \/ ContentLocalClean
    \/ ContentLocalRespond
    \/ ContentWorkerOcr
    \/ ContentWorkerRespond

SpecContent == InitContent /\ [][NextContent]_vars

---------------------------------------------------------------------------
(* Several requests in one isolate of the Worker *)

\* the requests one isolate handles at a time
MaxRequests == 2

RequestIds == 1..MaxRequests

\* the ?apiKey= values of the requests
UserKeys == {"user-key", "other-key"}

\* the requests of an isolate: each with its own ?apiKey= or none, all
\* with the env of the isolate
IsolateRequests ==
    UNION {[RequestIds -> [apiKeyParam : UserKeys \cup {""}, env : {env}]] :
              env \in Envs}

\* fetch of request r: _env = env; _userApiKey =
\* url.searchParams.get("apiKey"); return createMcpHandler(server)(request,
\* env, ctx), a promise: the body of the request is read and the tool's
\* handler called in later turns of the event loop
IsolateFetch(r) ==
    /\ pc[r] = "fetch"
    /\ _env' = request[r].env
    /\ _userApiKey' = request[r].apiKeyParam
    /\ pc' = [pc EXCEPT ![r] = "handler"]
    /\ UNCHANGED <<request, locals, fsys, service, response, otherVars>>

\* the tool's handler of request r up to its first await: Schema.parse,
\* const apiKey = getApiKey(), new Mistral({ apiKey })
IsolateHandler(r) ==
    /\ pc[r] = "handler"
    /\ LET apiKey == WorkerApiKey(_userApiKey, _env)
       IN  IF apiKey = ""
           THEN /\ response' = [response EXCEPT ![r] =
                      ErrorResponse(Err("", ErrNoKey), "")]
                /\ pc' = [pc EXCEPT ![r] = "done"]
                /\ UNCHANGED locals
           ELSE /\ locals' = [locals EXCEPT ![r] = [apiKey |-> apiKey]]
                /\ pc' = [pc EXCEPT ![r] = "ocr"]
                /\ UNCHANGED response
    /\ UNCHANGED <<request, fsys, service, _env, _userApiKey, otherVars>>

\* await client.ocr.process(...) of request r, with the client made from
\* the handler's apiKey, and the response
IsolateOcr(r) ==
    /\ pc[r] = "ocr"
    /\ \E ok \in BOOLEAN :
          /\ service' = Append(service,
                [request |-> r, op |-> "ocr", apiKey |-> locals[r].apiKey,
                 result |-> IF ok THEN "ok" ELSE "failed"])
          /\ response' = [response EXCEPT ![r] =
                IF ok THEN SuccessResponse(<<>>, <<>>, "")
                ELSE ErrorResponse(Err("", ErrOcr), "")]
    /\ pc' = [pc EXCEPT ![r] = "done"]
    /\ UNCHANGED <<request, locals, fsys, _env, _userApiKey, otherVars>>

\* an isolate whose requests have arrived and none has run
InitIsolate ==
    /\ request \in IsolateRequests
    /\ pc = [r \in RequestIds |-> "fetch"]
    /\ locals = [r \in RequestIds |-> [apiKey |-> ""]]
    /\ fsys = {}
    /\ service = <<>>
    /\ response = [r \in RequestIds |-> NoResponse]
    /\ _env = NoEnv
    /\ _userApiKey = ""
    /\ ParseIdle
    /\ CleanIdle
    /\ TextIdle

NextIsolate ==
    \E r \in RequestIds :
        \/ IsolateFetch(r)
        \/ IsolateHandler(r)
        \/ IsolateOcr(r)

SpecIsolate == InitIsolate /\ [][NextIsolate]_vars

---------------------------------------------------------------------------
(* What a page spec denotes, read from its text alone *)

AllDigits(s) == s # <<>> /\ \A i \in 1..Len(s) : IsDigit(s[i])

DecValue(s) == DigitsValue(s, 0)

\* the trimmed tokens of a page spec
Tokens(spec) == LET ps == Split(spec, ",") IN [i \in 1..Len(ps) |-> Trim(ps[i])]

HyphenAt(t) == {k \in 1..Len(t) : t[k] = "-"}

LeftOf(t, k) == Trim(SubSeq(t, 1, k - 1))

RightOf(t, k) == Trim(SubSeq(t, k + 1, Len(t)))

\* a single positive integer
IsSinglePage(t) == AllDigits(t) /\ DecValue(t) >= 1

\* start-end with 1 <= start <= end, white space allowed around the hyphen
IsPageRange(t) ==
    \E k \in HyphenAt(t) :
        /\ AllDigits(LeftOf(t, k)) /\ AllDigits(RightOf(t, k))
        /\ 1 <= DecValue(LeftOf(t, k))
        /\ DecValue(LeftOf(t, k)) <= DecValue(RightOf(t, k))

ValidToken(t) == IsSinglePage(t) \/ IsPageRange(t)

\* the pages a valid token stands for
Denoted(t) ==
    IF IsSinglePage(t) THEN {DecValue(t)}
    ELSE IF IsPageRange(t)
    THEN LET k == CHOOSE k \in HyphenAt(t) : AllDigits(LeftOf(t, k)) /\ AllDigits(RightOf(t, k))
         IN  DecValue(LeftOf(t, k))..DecValue(RightOf(t, k))
    ELSE {}

DenotedBySpec(spec) ==
    UNION {Denoted(Tokens(spec)[i]) : i \in 1..Len(Tokens(spec))}

AllTokensValid(spec) == \A i \in 1..Len(Tokens(spec)) : ValidToken(Tokens(spec)[i])

\* an integer in base 10, signed or not
IsIntegerText(t) ==
    \/ AllDigits(t)
    \/ Len(t) > 1 /\ t[1] \in {"-", "+"} /\ AllDigits(Tail(t))

\* two integers around one hyphen
IsRangeText(t) ==
    \E k \in HyphenAt(t) : AllDigits(LeftOf(t, k)) /\ AllDigits(RightOf(t, k))

\* neither an integer nor an integer range: "abc", "", "1-", "1-a"
MalformedToken(t) == ~IsIntegerText(t) /\ ~IsRangeText(t)

\* C1 as claimed: a page spec with a token that is not a base-10 integer or an
\* integer range never parses; parsePageSpec returns only when no token is
\* malformed.
C1_MalformedTokenFails ==
    parseState = "returned" =>
        \A i \in 1..Len(Tokens(pageSpec)) : ~MalformedToken(Tokens(pageSpec)[i])

\* C2 as claimed: parsePageSpec never partially succeeds; when it returns,
\* every token was valid and the set is exactly the union of what the tokens
\* denote.
C2_NoPartialSuccess ==
    parseState = "returned" =>
        /\ AllTokensValid(pageSpec)
        /\ pages = {Num(p) : p \in DenotedBySpec(pageSpec)}

\* C3 as claimed: every member of a returned page set is an integer >= 1.
C3_MembersPositive ==
    parseState = "returned" => \A p \in pages : ~p.nan /\ p.val >= 1

\* the tokens C4 lists: a leading '-', a number or range endpoint below 1, a
\* range with start > end, a token with more than one hyphen
RejectedToken(t) ==
    \/ Len(t) > 0 /\ t[1] = "-"
    \/ AllDigits(t) /\ DecValue(t) < 1
    \/ Cardinality(HyphenAt(t)) >= 2
    \/ \E k \in HyphenAt(t) :
         /\ Cardinality(HyphenAt(t)) = 1
         /\ \/ AllDigits(LeftOf(t, k)) /\ DecValue(LeftOf(t, k)) < 1
            \/ AllDigits(RightOf(t, k)) /\ DecValue(RightOf(t, k)) < 1
            \/ /\ AllDigits(LeftOf(t, k)) /\ AllDigits(RightOf(t, k))
               /\ DecValue(LeftOf(t, k)) > DecValue(RightOf(t, k))

HasRejectedToken(spec) ==
    \E i \in 1..Len(Tokens(spec)) : RejectedToken(Tokens(spec)[i])

\* C4: a page spec with a token that starts with '-', is a number or has a
\* range endpoint below 1, has start > end or has more than one hyphen makes
\* parsePageSpec throw, whatever its other tokens are: the call never returns.
C4_RejectedTokenThrows ==
    HasRejectedToken(pageSpec) => parseState # "returned"

\* C4's case: the call threw at a rejected token after pages of earlier
\* tokens had been collected.
C4_Witness ==
    /\ parseState = "thrown"
    /\ pages # {}
    /\ RejectedToken(Tokens(pageSpec)[partIdx])
    /\ parseError = ErrRangeOrder

\* C5: a page spec of valid tokens only never throws and returns exactly the
\* union of its single pages and inclusive ranges.
C5_ValidSpecUnion ==
    AllTokensValid(pageSpec) =>
        /\ parseState # "thrown"
        /\ parseState = "returned" =>
               pages = {Num(p) : p \in DenotedBySpec(pageSpec)}

\* C5's case: a range and an overlapping single page were parsed to three
\* pages.
C5_Witness ==
    /\ parseState = "returned"
    /\ AllTokensValid(pageSpec)
    /\ Len(parts) = 2
    /\ \E i \in 1..2 : IsPageRange(Tokens(pageSpec)[i])
    /\ pages = {Num(1), Num(2), Num(3)}

---------------------------------------------------------------------------
(* What cleaning is to do to a document, read from its lines alone *)

\* how many lines of ls have the trimmed form k
OccTrim(ls, k) == Cardinality({i \in 1..Len(ls) : Trim(ls[i]) = k})

\* how many lines of ls are exactly l
OccExact(ls, l) == Cardinality({i \in 1..Len(ls) : ls[i] = l})

IsBlank(line) == Trim(line) = <<>>

\* a is b with some of its members left out
RECURSIVE IsSubseq(_, _)
IsSubseq(a, b) ==
    IF a = <<>> THEN TRUE
    ELSE IF b = <<>> THEN FALSE
    ELSE IF Head(a) = Head(b) THEN IsSubseq(Tail(a), Tail(b))
    ELSE IsSubseq(a, Tail(b))

\* 'Page <digits>...' in any letter case, '[<digits>]...', '...doi:...' in
\* any letter case, or digits only
ProtectedShape(t) ==
    \/ /\ Len(t) >= 6
       /\ <<ToLower(t[1]), ToLower(t[2]), ToLower(t[3]), ToLower(t[4])>> = <<"p", "a", "g", "e">>
       /\ t[5] = " "
       /\ IsDigit(t[6])
    \/ /\ Len(t) >= 3
       /\ t[1] = "["
       /\ \E k \in 3..Len(t) : t[k] = "]" /\ AllDigits(SubSeq(t, 2, k - 1))
    \/ \E i \in 1..(Len(t) - 3) :
         /\ ToLower(t[i]) = "d" /\ ToLower(t[i + 1]) = "o"
         /\ ToLower(t[i + 2]) = "i" /\ t[i + 3] = ":"
    \/ AllDigits(t)

\* C6: a line whose trimmed form has a protected shape is never removed,
\* however often it occurs: the output holds as many copies of it as the
\* input.
C6_ProtectedLinesKept ==
    cleanState = "returned" =>
        \A i \in 1..Len(lines) :
            ProtectedShape(Trim(lines[i])) =>
                OccExact(cleanedLines, lines[i]) = OccExact(lines, lines[i])

\* C6's case: a protected line occurred at least three times and every copy
\* is in the output.
C6_Witness ==
    /\ cleanState = "returned"
    /\ \E i \in 1..Len(lines) :
         /\ ProtectedShape(Trim(lines[i]))
         /\ OccTrim(lines, Trim(lines[i])) >= 3
         /\ OccTrim(cleanedLines, Trim(lines[i])) >= 3

\* C7: a non-blank line whose trimmed form occurs at most twice is never
\* removed, and no occurrence of an unprotected trimmed form that occurs three
\* or more times is left in the output.
C7_ThresholdBoundary ==
    cleanState = "returned" =>
        \A i \in 1..Len(lines) :
            LET k == Trim(lines[i]) IN
            k # <<>> =>
                /\ OccTrim(lines, k) <= 2 =>
                       OccExact(cleanedLines, lines[i]) = OccExact(lines, lines[i])
                /\ (OccTrim(lines, k) >= 3 /\ ~ProtectedShape(k)) =>
                       OccTrim(cleanedLines, k) = 0

\* C7's case: one unprotected line occurred exactly three times and is gone,
\* another occurred once and is kept.
C7_Witness ==
    /\ cleanState = "returned"
    /\ \E i, j \in 1..Len(lines) :
         /\ ~ProtectedShape(Trim(lines[i]))
         /\ OccTrim(lines, Trim(lines[i])) = 3
         /\ OccTrim(cleanedLines, Trim(lines[i])) = 0
         /\ ~IsBlank(lines[j])
         /\ OccTrim(lines, Trim(lines[j])) = 1
         /\ OccExact(cleanedLines, lines[j]) = 1

\* C8: cleaning is idempotent; cleaning the cleaned content returns it
\* unchanged, with the same label.
C8_CleanIdempotent ==
    cleanState = "returned" =>
        CleanMarkdownContent(cleanedContent) = <<cleanedContent, cleanMethod>>

\* C8's case: the first cleaning removed lines and left some text.
C8_Witness ==
    /\ cleanState = "returned"
    /\ cleanedContent # content
    /\ cleanedContent # <<>>

\* C9: the output lines are a subsequence of the input lines, with their exact
\* content; every blank line stays; and the returned text splits back into
\* exactly these lines (unless none is left).
C9_LinesSubsequence ==
    cleanState = "returned" =>
        /\ IsSubseq(cleanedLines, lines)
        /\ SelectSeq(cleanedLines, IsBlank) = SelectSeq(lines, IsBlank)
        /\ cleanedLines # <<>> => Split(cleanedContent, NL) = cleanedLines

\* C9's case: lines were removed, and a line with surrounding white space is
\* among those that stay.
C9_Witness ==
    /\ cleanState = "returned"
    /\ Len(cleanedLines) < Len(lines)
    /\ \E i \in 1..Len(cleanedLines) : cleanedLines[i] # Trim(cleanedLines[i])

\* C10: a line is counted under its trimmed form, compared exactly: the count
\* of a trimmed form is the number of lines that trim to it, letter case
\* included, and only a form with three such lines loses a line.
C10_TrimmedExactIdentity ==
    cleanState = "returned" =>
        /\ DOMAIN lineCounts = {Trim(lines[i]) : i \in 1..Len(lines)} \ {<<>>}
        /\ \A k \in DOMAIN lineCounts : lineCounts[k] = OccTrim(lines, k)
        /\ \A i \in 1..Len(lines) :
               OccTrim(cleanedLines, Trim(lines[i])) < OccTrim(lines, Trim(lines[i]))
                   => OccTrim(lines, Trim(lines[i])) >= 3

\* C10's case: "a" was counted three times, once with leading white space,
\* and removed, while "A" was counted apart and kept.
C10_Witness ==
    /\ cleanState = "returned"
    /\ {<<"a">>, <<"A">>} \subseteq DOMAIN lineCounts
    /\ lineCounts[<<"a">>] = 3
    /\ OccExact(lines, <<" ", "a">>) >= 1
    /\ cleanedLines = <<<<"A">>>>

---------------------------------------------------------------------------
(* What the plain-text conversion is said to do *)

\* where an image embed ![alt](target) that starts at position i ends (0
\* when none starts there): alt runs to the first "](", target to the
\* first ')' after it
ImageEmbedEnd(s, i) ==
    LET Mids == {j \in (i + 2)..(Len(s) - 1) : s[j] = "]" /\ s[j + 1] = "("}
        Ends == {k \in (i + 4)..Len(s) :
                    s[k] = ")" /\ Mids # {} /\ k >= Least(Mids) + 2}
    IN  IF i + 1 <= Len(s) /\ s[i] = "!" /\ s[i + 1] = "[" /\ Ends # {}
        THEN Least(Ends)
        ELSE 0

\* the text without its image embeds
RECURSIVE WithoutImageEmbedsFrom(_, _)
WithoutImageEmbedsFrom(s, i) ==
    IF i > Len(s) THEN <<>>
    ELSE IF ImageEmbedEnd(s, i) > 0
    THEN WithoutImageEmbedsFrom(s, ImageEmbedEnd(s, i) + 1)
    ELSE <<s[i]>> \o WithoutImageEmbedsFrom(s, i + 1)

WithoutImageEmbeds(s) == WithoutImageEmbedsFrom(s, 1)

\* C11: every image embed ![alt](target) of the input is removed entirely;
\* the link step never sees one, so after the link step the text is the
\* input without its image embeds and with each link replaced by its text
C11_ImagesRemovedEntirely ==
    mdState = "links" => mdText = KeepLinkText(WithoutImageEmbeds(mdContent))

WithoutMarkers(s) ==
    LET Kept(c) == c \notin {"#", "*", "_", GraveAccent, "~"} IN SelectSeq(s, Kept)

\* no line feed of s from position i on is the first of three in a row
NoTripleFrom(s, i) ==
    \A x \in i..(Len(s) - 2) : ~(s[x] = NL /\ s[x + 1] = NL /\ s[x + 2] = NL)

\* each run of three or more line feeds of s made two
RECURSIVE CollapsedFrom(_, _, _)
CollapsedFrom(s, i, run) ==
    IF i > Len(s) THEN <<>>
    ELSE IF s[i] = NL
    THEN (IF run < 2 THEN <<NL>> ELSE <<>>) \o CollapsedFrom(s, i + 1, run + 1)
    ELSE <<s[i]>> \o CollapsedFrom(s, i + 1, 0)

Collapsed(s) == CollapsedFrom(s, 1, 0)

Surrounded(s) ==
    Len(s) > 0 /\ (IsWhiteSpace(s[1]) \/ IsWhiteSpace(s[Len(s)]))

RECURSIVE Trimmed(_)
Trimmed(s) ==
    IF ~Surrounded(s) THEN s
    ELSE IF IsWhiteSpace(s[1]) THEN Trimmed(Tail(s))
    ELSE Trimmed(SubSeq(s, 1, Len(s) - 1))

\* "Title\n\nlink\nbold"
ExamplePlainText ==
    <<"T", "i", "t", "l", "e", "\n", "\n", "l", "i", "n", "k", "\n",
      "b", "o", "l", "d">>

\* C12: the result is the composition, in this order, of removing image
\* embeds, replacing links by their text, deleting the marker characters,
\* collapsing runs of three or more line breaks to two, and trimming; the
\* example text gives "Title\n\nlink\nbold"
C12_IsComposition ==
    mdState = "returned" =>
        /\ mdText = Trimmed(Collapsed(WithoutMarkers(
                        KeepLinkText(WithoutImageEmbeds(mdContent)))))
        /\ mdContent = ExampleMarkdown => mdText = ExamplePlainText

\* C13: the result never holds three or more line breaks in a row
C13_NoTripleLineBreak ==
    mdState = "returned" => NoTripleFrom(mdText, 1)

\* a returned call whose input had no three line breaks in a row, on a text
\* where the deletions had brought three together
C13_Witness ==
    /\ mdState = "returned"
    /\ NoTripleFrom(mdContent, 1)
    /\ ~NoTripleFrom(WithoutMarkers(KeepLinkText(DropImages(mdContent))), 1)
    /\ \E x \in 1..Len(mdText) : mdText[x] = NL

NonBlankLines(c) == {x \in 1..Len(Split(c, NL)) : ~IsBlank(Split(c, NL)[x])}

\* C14: both converters always return: a call that has not returned can
\* take its next step and no step fails; the empty string gives the empty
\* string, and the method label is always the same
C14_Total ==
    /\ cleanState \notin {"idle", "returned"} => ENABLED NextClean
    /\ mdState \notin {"idle", "returned"} => ENABLED NextText
    /\ cleanState = "returned" =>
          /\ cleanMethod = "lightweight inline deduplication"
          /\ content = <<>> => cleanedContent = <<>>
    /\ mdState = "returned" => (mdContent = <<>> => mdText = <<>>)

\* a document with non-empty lines, all of them removed as repetitive
C14_Witness ==
    /\ cleanState = "returned"
    /\ NonBlankLines(content) # {}
    /\ NonBlankLines(cleanedContent) = {}

---------------------------------------------------------------------------
(* What the tool calls are said to do *)

\* C15: a local process_url call with keep_pdf=false that returns after the
\* download, with success or with any error, has deleted the downloaded
\* PDF; with keep_pdf=true the PDF is never deleted and a successful
\* response gives its path as pdf_file
C15_PdfDeletedUnlessKept ==
    (/\ request.variant = "local"
     /\ request.name = "mistral_ocr_process_url"
     /\ locals.downloadedPdf # "") =>
        IF request.keep_pdf
        THEN /\ locals.downloadedPdf \in fsys
             /\ (response.returned /\ response.success) =>
                    response.pdf_file = locals.downloadedPdf
        ELSE response.returned => locals.downloadedPdf \notin fsys

\* the first key that is set, of ?apiKey=, MISTRAL_API_KEY and
\* DEFAULT_MISTRAL_API_KEY ("" when none is)
KeyByPriority(req) ==
    IF req.apiKeyParam # "" THEN req.apiKeyParam
    ELSE IF req.env.MISTRAL_API_KEY # "" THEN req.env.MISTRAL_API_KEY
    ELSE req.env.DEFAULT_MISTRAL_API_KEY

\* C16: a Worker call uses the key of highest priority among ?apiKey=,
\* MISTRAL_API_KEY and DEFAULT_MISTRAL_API_KEY, and fails with
\* 'MISTRAL_API_KEY not found' only when none of the three is set
C16_ApiKeyPriority ==
    request.variant = "worker" =>
        /\ \A i \in 1..Len(service) : service[i].apiKey = KeyByPriority(request)
        /\ (/\ response.returned
            /\ ~response.success
            /\ response.error.message = "MISTRAL_API_KEY not found") =>
                KeyByPriority(request) = ""

\* the call ended on the error parsePageSpec threw for its pages
EndedOnRejectedSpec ==
    /\ response.returned
    /\ request.pages # <<>>
    /\ ParsePageSpec(request.pages).threw
    /\ response.error.message = ParsePageSpec(request.pages).error

\* C17: in every tool with a pages parameter, local or Worker, a rejected
\* page spec gives a success=false response whose message says the page
\* specification is invalid and whose suggestion is the format '1,5,10-15'
C17_RejectedSpecResponse ==
    EndedOnRejectedSpec =>
        /\ ~response.success
        /\ response.error.prefix = "Invalid page specification: "
        /\ response.suggestion = "Use format like '1,5,10-15' for page selection."

StrictlyAscending(ps) ==
    \A i \in 1..(Len(ps) - 1) :
        ~ps[i].nan /\ ~ps[i + 1].nan /\ ps[i].val < ps[i + 1].val

\* C18: the pages_processed of a response, the pages of an out-of-range
\* warning and the page list sent to the OCR service are in strictly
\* ascending order
C18_PagesAscending ==
    /\ \A i \in 1..Len(service) : StrictlyAscending(service[i].pages)
    /\ response.returned =>
          /\ StrictlyAscending(response.pages_processed)
          /\ \A i \in 1..Len(response.warnings) :
                StrictlyAscending(response.warnings[i].pages)

\* a successful response of a tool whose result comes from processPdfOcr
\* and reports pages_processed, to a call with a valid page spec
ProcessedWithSpec ==
    /\ response.returned
    /\ response.success
    /\ request.pages # <<>>
    /\ AllTokensValid(request.pages)
    /\ \/ request.variant = "local"
          /\ request.name \in {"mistral_ocr_process_pdf", "mistral_ocr_process_url",
                               "mistral_ocr_extract_tables"}
       \/ request.variant = "worker" /\ request.name = "mistral_ocr_process_url"

PageValues(ps) == {ps[i].val : i \in 1..Len(ps)}

\* C19: with a valid page spec, pages_processed is the set of requested
\* pages within 1..totalPages, and the requested pages beyond it are named
\* in a warning of the successful response
C19_OutOfRangeWarned ==
    ProcessedWithSpec =>
        LET requested == DenotedBySpec(request.pages)
            existing == requested \cap 1..request.docPages
        IN  /\ PageValues(response.pages_processed) = existing
            /\ requested # existing =>
                  \E i \in 1..Len(response.warnings) :
                      PageValues(response.warnings[i].pages) = requested \ existing

---------------------------------------------------------------------------
(* What the plain-text conversion keeps *)

\* C29: the result of markdownToText is the input with characters left
\* out, the remaining ones in their order, and holds none of '#', '*',
\* '_', the grave accent and '~'
C29_OnlyDeletes ==
    mdState = "returned" =>
        /\ IsSubseq(mdText, mdContent)
        /\ \A i \in 1..Len(mdText) :
              mdText[i] \notin {"#", "*", "_", GraveAccent, "~"}

\* a text with a link and a marker, converted to a shorter, non-empty text
C29_Witness ==
    /\ mdState = "returned"
    /\ \E i \in 1..Len(mdContent) : mdContent[i] = "*"
    /\ \E i \in 1..(Len(mdContent) - 1) : mdContent[i] = "]" /\ mdContent[i + 1] = "("
    /\ Len(mdText) > 0
    /\ Len(mdText) < Len(mdContent)

---------------------------------------------------------------------------
(* What extract_structured is said to do with pages *)

LocalStructured ==
    request.variant = "local" /\ request.name = "mistral_ocr_extract_structured"

\* the call has a valid page spec that denotes n distinct pages
DenotesPages(n) ==
    /\ request.pages # <<>>
    /\ AllTokensValid(request.pages)
    /\ Cardinality(DenotedBySpec(request.pages)) = n

\* C21: the local extract_structured makes no upload and no OCR call for a
\* page spec of more than 8 distinct pages and answers it with an error;
\* it answers the 8-page limit error to no spec of 8 pages or fewer; and
\* a successful response lists at most 8 pages_processed
C21_AnnotationLimit ==
    LocalStructured =>
        /\ (\E n \in 9..20 : DenotesPages(n)) =>
              /\ service = <<>>
              /\ response.returned => ~response.success
        /\ (/\ response.returned
            /\ response.error.prefix = "Document annotation is limited to 8 pages") =>
              ~(\E n \in 0..8 : DenotesPages(n))
        /\ (response.returned /\ response.success) =>
              Len(response.pages_processed) <= 8

\* the limit error given to a spec of 9 pages, nothing sent to the service
C21_Witness ==
    /\ LocalStructured
    /\ DenotesPages(9)
    /\ response.returned
    /\ response.error.prefix = "Document annotation is limited to 8 pages"
    /\ service = <<>>

\* C30: with a valid page spec, the pages_processed of a successful local
\* extract_structured response are the requested pages that the document
\* has
C30_StructuredPagesSelected ==
    (/\ LocalStructured
     /\ response.returned
     /\ response.success
     /\ request.pages # <<>>
     /\ AllTokensValid(request.pages)) =>
        PageValues(response.pages_processed)
            = DenotedBySpec(request.pages) \cap 1..request.docPages

---------------------------------------------------------------------------
(* A rejected page spec and the Mistral service *)

\* the call has a page spec that parsePageSpec rejects
HasRejectedSpec ==
    request.pages # <<>> /\ ParsePageSpec(request.pages).threw

\* C28: a call whose page spec parsePageSpec rejects makes no file upload
\* and no OCR request, and the response it ends with is an error response
C28_RejectedSpecNoService ==
    HasRejectedSpec =>
        /\ service = <<>>
        /\ response.returned => (~response.success /\ response.isError)

\* a call with valid arguments and an API key that ended on the error of
\* its rejected page spec, the service never called
C28_Witness ==
    /\ EndedOnRejectedSpec
    /\ request.argsOk
    /\ request.env.MISTRAL_API_KEY # ""
    /\ ~response.success
    /\ service = <<>>

---------------------------------------------------------------------------
(* The fallback of processPdfOcr *)

\* the call goes through processPdfOcr
ThroughProcessPdfOcr ==
    \/ request.variant = "local"
       /\ request.name \in {"mistral_ocr_process_pdf", "mistral_ocr_process_url",
                            "mistral_ocr_extract_tables"}
    \/ request.variant = "worker"
       /\ request.name \in {"mistral_ocr_process_url", "mistral_ocr_extract_tables"}

IsOcrRequest(call) == call.op = "ocr"

\* the OCR requests of the call, in the order they were made
OcrRequests == SelectSeq(service, IsOcrRequest)

\* how an OCR request ends when the service does not support the header
\* and footer parameters: locally an error whose message names them, in
\* the Worker a TypeError
UnsupportedParameter ==
    IF request.variant = "local" THEN "unsupported" ELSE "typeError"

\* C25: one invocation of processPdfOcr makes at most two OCR requests; it
\* makes the second only after the first failed with the
\* unsupported-parameter error, and sends it without extractHeader and
\* extractFooter; after any other failure of the first request, and after
\* a failure of the second, no request follows and the call ends with
\* that error
C25_FallbackOnce ==
    ThroughProcessPdfOcr =>
        /\ Len(OcrRequests) <= 2
        /\ Len(OcrRequests) = 2 =>
              /\ OcrRequests[1].result = UnsupportedParameter
              /\ OcrRequests[2].params = {}
        /\ (Len(OcrRequests) >= 1 /\ OcrRequests[1].result = "failed") =>
              /\ Len(OcrRequests) = 1
              /\ response.returned =>
                    (~response.success /\ response.error.message = "OCR request failed")
        /\ (/\ Len(OcrRequests) = 2
            /\ OcrRequests[2].result = "failed"
            /\ response.returned) =>
              (~response.success /\ response.error.message = "OCR request failed")

\* a Worker call whose first OCR request ended in a TypeError and whose
\* second, sent without the two parameters, failed: the call ended with
\* the error of the second
C25_Witness ==
    /\ ThroughProcessPdfOcr
    /\ request.variant = "worker"
    /\ Len(OcrRequests) = 2
    /\ OcrRequests[1].params = {"extractHeader", "extractFooter"}
    /\ OcrRequests[1].result = "typeError"
    /\ OcrRequests[2].params = {}
    /\ OcrRequests[2].result = "failed"
    /\ response.returned
    /\ ~response.success

---------------------------------------------------------------------------
(* The two cleanMarkdownContent functions *)

\* C22: the cleaned text and the method label that the local
\* cleanMarkdownContent returns for a content are the ones the Worker's
\* cleanMarkdownContent returns for it
C22_SameCleaning ==
    cleanState = "returned" =>
        <<cleanedContent, cleanMethod>> = WorkerCleanMarkdownContent(content)

\* a content of which both functions drop a repeated line and keep another
C22_Witness ==
    /\ cleanState = "returned"
    /\ cleanedContent # content
    /\ cleanedContent # <<>>
    /\ WorkerCleanMarkdownContent(content)[1] # content

---------------------------------------------------------------------------
(* clean_output and the output format *)

\* a local process_pdf, process_url or process_image call has returned
LocalContentReturned ==
    /\ request.variant = "local"
    /\ request.name \in {"mistral_ocr_process_pdf", "mistral_ocr_process_url",
                         "mistral_ocr_process_image"}
    /\ response.returned
    /\ response.success

\* the markdown that the OCR step of the call gave its handler
OcrMarkdown ==
    IF request.name = "mistral_ocr_process_image"
    THEN LocalImageOcrResult(request).markdown_content
    ELSE LocalPdfOcrResult(request).markdown_content

\* C23: in the local process_pdf, process_url and process_image, with
\* output_format 'text' the content is the text of the OCR markdown
\* whatever clean_output is, and the response has cleaned=false and
\* config_used=null; with 'markdown' and clean_output=true the content is
\* the cleaned markdown and cleaned=true
C23_CleanOnlyMarkdown ==
    LocalContentReturned =>
        /\ request.output_format = "text" =>
              /\ response.content =
                    (IF request.return_content
                     THEN Some(MarkdownToText(OcrMarkdown)) ELSE NoValue)
              /\ response.cleaned = FALSE
              /\ response.config_used = "null"
        /\ (request.output_format = "markdown" /\ request.clean_output) =>
              /\ response.content =
                    (IF request.return_content
                     THEN Some(CleanMarkdownContent(OcrMarkdown)[1]) ELSE NoValue)
              /\ response.cleaned = TRUE

\* a text call with clean_output=true on markdown that cleaning would
\* change: the content came back uncleaned
C23_Witness ==
    /\ LocalContentReturned
    /\ request.output_format = "text"
    /\ request.clean_output
    /\ request.return_content
    /\ CleanMarkdownContent(OcrMarkdown)[1] # OcrMarkdown
    /\ response.content = Some(OcrMarkdown)
    /\ ~response.cleaned

---------------------------------------------------------------------------
(* The pages of tables and images *)

\* page p of the document, once for each of its n items
RECURSIVE PagesOfItems(_, _)
PagesOfItems(ps, count) ==
    IF ps = <<>> THEN <<>>
    ELSE [t \in 1..count[Head(ps).val] |-> Head(ps).val]
         \o PagesOfItems(Tail(ps), count)

TableCounts == [p \in 1..Len(request.ocrPages) |-> request.ocrPages[p].tables]

ImageCounts == [p \in 1..Len(request.ocrPages) |-> request.ocrPages[p].images]

\* C26: each table and image of a local processPdfOcr result has as page
\* the number, in the document, of the page it is on, and the ids of the
\* tables are tbl-0, tbl-1, ... in that order
C26_OriginalPageNumbers ==
    (/\ request.variant = "local"
     /\ response.returned
     /\ response.tables.present
     /\ response.images.present) =>
        LET tables == response.tables.value
            images == response.images.value
        IN  /\ [k \in 1..Len(tables) |-> tables[k].page]
                  = PagesOfItems(response.pages_processed, TableCounts)
            /\ [k \in 1..Len(images) |-> images[k].page]
                  = PagesOfItems(response.pages_processed, ImageCounts)
            /\ \A k \in 1..Len(tables) : tables[k].id = <<"tbl-", k - 1>>

---------------------------------------------------------------------------
(* Hyperlinks and the output format *)

OtherFormat(format) == IF format = "text" THEN "markdown" ELSE "text"

\* the hyperlinks field that processPdfOcr gives a call
HyperlinksOf(req) ==
    IF req.variant = "local" THEN LocalPdfOcrResult(req).hyperlinks
    ELSE WorkerPdfOcrResult(req).hyperlinks

\* C27: a call with include_hyperlinks=true reports the hyperlinks that
\* the same call with the other output_format reports, in the local
\* server and in the Worker
C27_HyperlinksWhateverFormat ==
    (/\ response.returned
     /\ request.include_hyperlinks) =>
        response.hyperlinks =
            HyperlinksOf([request EXCEPT
                            !.output_format = OtherFormat(request.output_format)])

---------------------------------------------------------------------------
(* The module-level env and user key of the Worker *)

\* the key of request r: its ?apiKey= value, or the key of its env
OwnKey(r) == WorkerApiKey(request[r].apiKeyParam, request[r].env)

\* C24: whatever the interleaving of the requests of an isolate, the key
\* a tool call got from getApiKey, and sends to the service, is the key of
\* its own request, and a request without ?apiKey= does not use the user
\* key of another request
C24_OwnKeyOnly ==
    /\ \A r \in DOMAIN locals :
          locals[r].apiKey # "" =>
              /\ locals[r].apiKey = OwnKey(r)
              /\ request[r].apiKeyParam = "" =>
                    locals[r].apiKey \notin {"user-key", "other-key"}
    /\ \A i \in 1..Len(service) :
          service[i].apiKey = OwnKey(service[i].request)

===========================================================================
